---------------------------- MODULE Spec2Model ----------------------------
(***************************************************************************)
(* Loopback capture backend: the command surface (commands.rs), the        *)
(* capture handle and its worker thread (audio/capture.rs), the loopback   *)
(* session (audio/wasapi.rs) and the waveform sink (audio/wav.rs).         *)
(***************************************************************************)
EXTENDS Integers, Sequences, FiniteSets, TLC

VARIABLES
    now,            \* the last reading of SystemTime::now(), in ms (commands.rs:28)
    gen,            \* number of SystemAudioHandle values created so far
    capture_lock,   \* contents of Mutex<Option<SystemAudioHandle>>: 0 = None, i = Some(handle i)
    mutex,          \* who holds the capture mutex: "free" or "stop"
    sess,           \* per handle: its fields, its worker thread, the worker's session, writer and file
    npk,            \* packets the device has handed out so far
    ret,            \* the call that returned last and its value
    asr,            \* the engine slot Mutex<Option<MoonshineEngine>>, the transcription
                    \* commands in progress and the transcribe call each one runs
    meter,          \* a capture loop seen from its level meter: sink, levels, events
    kern,           \* the argument of a text or numeric kernel and what it returned
    enh,            \* the post-processor: its calls in progress and the files it wrote
    dev             \* one LoopbackSession and the device resources it holds

vars == <<now, gen, capture_lock, mutex, sess, npk, ret, asr, meter, kern, enh, dev>>

\* the state outside the capture backend
aux == <<asr, meter, kern, enh, dev>>

\* the state of the capture backend
capture == <<now, gen, capture_lock, mutex, sess, npk, ret>>

---------------------------------------------------------------------------
(* Bounds of the model. *)

\* handles created in one behaviour
MaxSessions == 2
\* packets the device hands out in one behaviour
MaxPackets == 2
\* largest reading of the clock, in milliseconds after the first
MaxClock == 1
\* write calls made on one sink by the direct client of the sink
MaxWrites == 3
\* frame count of a very long write, standing for hours of audio (2^29 frames)
BigFrames == 536870912
\* words in a text given to the hallucination filter
MaxWords == 6
\* transcription commands issued to the application
MaxCalls == 3
\* enhance_audio commands issued to the application
MaxJobs == 2
\* samples in a waveform given to denoise_wav
MaxSamples == 3
\* iterations of the capture loop the level meter is followed for
MaxIters == 12
\* wait_for_buffer calls made on one loopback session
MaxWaits == 5
\* chunks after the RIFF header of a file given to the chunk scan
MaxChunks == 3
\* samples of a signal given to apply_fade alone
MaxFadeLen == 7

---------------------------------------------------------------------------
(* Unsigned integers wider than 31 bits, as <<high, low>> digits of radix   *)
(* 2^16: u64 byte counters and the u32 header fields keep their width.      *)

Radix == 2^16

Big(n) == <<n \div Radix, n % Radix>>

BigAdd(a, b) ==
    LET lo == a[2] + b[2]
    IN  <<a[1] + b[1] + (lo \div Radix), lo % Radix>>

\* n * k for a machine integer n < 2^31 and a small factor k
BigMul(n, k) ==
    LET lo == (n % Radix) * k
    IN  <<(n \div Radix) * k + (lo \div Radix), lo % Radix>>

\* a * k for a wide a and a small factor k
BigScale(a, k) ==
    LET lo == a[2] * k
    IN  <<a[1] * k + (lo \div Radix), lo % Radix>>

BigLeq(a, b) == a[1] < b[1] \/ (a[1] = b[1] /\ a[2] <= b[2])

BigMin(a, b) == IF BigLeq(a, b) THEN a ELSE b

\* u32::MAX (wav.rs:151)
U32Max == <<Radix - 1, Radix - 1>>

\* a + b in u32 arithmetic, wrapped
AddU32Wrapped(a, b) ==
    LET s == BigAdd(a, b)
    IN  <<s[1] % Radix, s[2]>>

\* whether a + b leaves the u32 range
AddU32Overflows(a, b) == ~BigLeq(BigAdd(a, b), U32Max)

---------------------------------------------------------------------------
(* Values returned by calls and by the worker thread: Result<String, AppError>, *)
(* or a panic of the thread (error.rs:5-41).                                    *)

NoPath == 0 - 1

OkPath(p) == [tag |-> "Ok", msg |-> "", path |-> p]
OkMsg(m) == [tag |-> "Ok", msg |-> m, path |-> NoPath]
Err(e) == [tag |-> "Err", msg |-> e, path |-> NoPath]
Panicked == [tag |-> "Panic", msg |-> "", path |-> NoPath]
NoResult == [tag |-> "None", msg |-> "", path |-> NoPath]

---------------------------------------------------------------------------
(* AudioFormat (wasapi.rs:25-30): the mix formats a device may report.      *)

Formats ==
    { [channels |-> 2, bits_per_sample |-> 32, is_float |-> TRUE],
      [channels |-> 1, bits_per_sample |-> 16, is_float |-> FALSE],
      [channels |-> 2, bits_per_sample |-> 24, is_float |-> FALSE] }

NoFormat == [channels |-> 0, bits_per_sample |-> 0, is_float |-> FALSE]

\* packets as GetBuffer reports them: num_frames and the SILENT flag (0x2)
Packets ==
    { [frames |-> 1, silent |-> FALSE],
      [frames |-> 2, silent |-> TRUE] }

---------------------------------------------------------------------------
(* The waveform sink (wav.rs).  A file is its two header size fields, the   *)
(* number of bytes after the 44-byte header and what those bytes are: one   *)
(* run per write call (zeros, a byte copy of the packet, or the packet's    *)
(* i16 samples converted to f32).                                           *)

\* the header is 44 bytes (wav.rs:58)
HeaderLen == 44
\* RIFF chunk size = 36 + data size (wav.rs:56)
RiffExtra == 36
\* every sample is persisted as 4 bytes (wav.rs:53, 84, 107)
BytesPerSample == 4

NoFile ==
    [exists |-> FALSE, channels |-> 0, riff |-> Big(0), data_size |-> Big(0),
     bytes |-> Big(0), runs |-> <<>>, torn |-> FALSE, finalized |-> FALSE]

NoWriter == [open |-> FALSE, format |-> NoFormat, data_bytes_written |-> Big(0)]

\* write_header: the two size fields, chunk_size = 36 + data_size in u32
write_header(f, fmt, data_size) ==
    [f EXCEPT !.channels = fmt.channels,
              !.riff = AddU32Wrapped(Big(RiffExtra), data_size),
              !.data_size = data_size]

\* AudioWavWriter::create: File::create truncates, then the placeholder header
create(fmt) ==
    [w |-> [open |-> TRUE, format |-> fmt, data_bytes_written |-> Big(0)],
     f |-> write_header([NoFile EXCEPT !.exists = TRUE], fmt, Big(0))]

\* write_silence: frame_count * channels * 4 zero bytes, counted the same
write_silence(w, f, frame_count) ==
    LET n == BigMul(frame_count, w.format.channels * BytesPerSample)
    IN  [w |-> [w EXCEPT !.data_bytes_written = BigAdd(@, n)],
         f |-> [f EXCEPT !.bytes = BigAdd(@, n),
                         !.runs = Append(@, [kind |-> "zero", frames |-> frame_count])]]

\* write_raw whose i16 branch counts the source bytes (2 per sample) it read
write_raw_counting_source(w, f, frame_count) ==
    LET sample_count == BigMul(frame_count, w.format.channels)
        counted == IF ~w.format.is_float /\ w.format.bits_per_sample = 16 THEN 2 ELSE 4
        kind == IF ~w.format.is_float /\ w.format.bits_per_sample = 16 THEN "i16" ELSE "copy"
    IN  [w |-> [w EXCEPT !.data_bytes_written = BigAdd(@, BigScale(sample_count, counted))],
         f |-> [f EXCEPT !.bytes = BigAdd(@, BigScale(sample_count, 4)),
                         !.runs = Append(@, [kind |-> kind, frames |-> frame_count])]]

\* write_raw: the bytes from_raw_parts makes readable at ptr, by encoding branch:
\* sample_count f32 values, sample_count i16 values, and sample_count * 4 bytes in
\* the fallback whatever the width of a source sample
source_bytes(fmt, sample_count) ==
    IF fmt.is_float /\ fmt.bits_per_sample = 32 THEN BigScale(sample_count, 4)
    ELSE IF ~fmt.is_float /\ fmt.bits_per_sample = 16 THEN BigScale(sample_count, 2)
    ELSE BigScale(sample_count, 4)

\* write_raw: the three encoding branches
write_raw(w, f, frame_count) ==
    LET channels == w.format.channels
        sample_count == BigMul(frame_count, channels)
    IN  IF w.format.is_float /\ w.format.bits_per_sample = 32
        THEN LET byte_len == source_bytes(w.format, sample_count)
             IN  [w |-> [w EXCEPT !.data_bytes_written = BigAdd(@, byte_len)],
                  f |-> [f EXCEPT !.bytes = BigAdd(@, byte_len),
                                  !.runs = Append(@, [kind |-> "copy", frames |-> frame_count])]]
        ELSE IF ~w.format.is_float /\ w.format.bits_per_sample = 16
        THEN [w |-> [w EXCEPT !.data_bytes_written = BigAdd(@, BigScale(sample_count, 4))],
              f |-> [f EXCEPT !.bytes = BigAdd(@, BigScale(sample_count, 4)),
                              !.runs = Append(@, [kind |-> "i16", frames |-> frame_count])]]
        ELSE LET byte_len == source_bytes(w.format, sample_count)
             IN  [w |-> [w EXCEPT !.data_bytes_written = BigAdd(@, byte_len)],
                  f |-> [f EXCEPT !.bytes = BigAdd(@, byte_len),
                                  !.runs = Append(@, [kind |-> "copy", frames |-> frame_count])]]

\* a write_all that fails: the call's bytes may have reached the file in part
write_failed(f, t) == [f EXCEPT !.torn = t]

\* finalize that flushes but does not seek back: the placeholder header stays
finalize_unpatched(w, f) == [f EXCEPT !.finalized = TRUE]

\* finalize after a successful flush and seek: the clamped size goes to the header
finalize(w, f) ==
    LET data_size == BigMin(w.data_bytes_written, U32Max)
    IN  [write_header(f, w.format, data_size) EXCEPT !.finalized = TRUE]

\* 36 + data_size leaves u32 in finalize: a panic with overflow checks, a wrap without
finalize_overflows(w) ==
    AddU32Overflows(Big(RiffExtra), BigMin(w.data_bytes_written, U32Max))

---------------------------------------------------------------------------
(* Floating-point samples and levels.  A finite value is an integer number  *)
(* of thousandths; NaN and the infinities are values of their own.  Squares *)
(* and their sums are in millionths.                                        *)

\* 1.0
Scale == 1000

Fin(v) == [k |-> "fin", v |-> v]
NaN == [k |-> "nan", v |-> 0]
Inf == [k |-> "inf", v |-> 0]

\* s * s
FSquare(x) == IF x.k = "fin" THEN Fin(x.v * x.v) ELSE x

\* a + b for a, b >= 0 or not finite
FAdd(a, b) ==
    IF a.k = "nan" \/ b.k = "nan" THEN NaN
    ELSE IF a.k = "inf" \/ b.k = "inf" THEN Inf
    ELSE Fin(a.v + b.v)

\* a > b: false when either side is NaN
FGt(a, b) ==
    /\ a.k # "nan" /\ b.k # "nan"
    /\ \/ a.k = "inf" /\ b.k = "fin"
       \/ a.k = "fin" /\ b.k = "fin" /\ a.v > b.v

\* f32::min: the other operand when one is NaN
FMin(a, b) ==
    IF a.k = "nan" THEN b
    ELSE IF b.k = "nan" THEN a
    ELSE IF FGt(a, b) THEN b ELSE a

RECURSIVE SqrtSearch(_, _, _)
\* the largest r in lo..hi with r * r <= n
SqrtSearch(n, lo, hi) ==
    IF lo >= hi THEN lo
    ELSE LET mid == (lo + hi + 1) \div 2
         IN  IF mid * mid <= n THEN SqrtSearch(n, mid, hi) ELSE SqrtSearch(n, lo, mid - 1)

\* (sum / count).sqrt() of a sum in millionths, in thousandths; count = 0 gives
\* 0/0 = NaN or x/0 = infinity as f64 division does
FRootMean(sum, count) ==
    IF sum.k # "fin" THEN sum
    ELSE IF count = 0 THEN (IF sum.v = 0 THEN NaN ELSE Inf)
    ELSE Fin(SqrtSearch(sum.v \div count, 0, 40000))

RECURSIVE SumSquares(_, _, _)
\* the while loop of compute_rms from index i (0-based) on: s * s of every step-th sample
SumSquares(samples, i, step) ==
    IF i >= Len(samples) THEN [sum |-> Fin(0), count |-> 0]
    ELSE LET rest == SumSquares(samples, i + step, step)
         IN  [sum |-> FAdd(FSquare(samples[i + 1]), rest.sum), count |-> rest.count + 1]

\* compute_rms without the final min(1.0)
compute_rms_unclamped(samples) ==
    IF samples = <<>> THEN Fin(0)
    ELSE LET acc == SumSquares(samples, 0, 4)
         IN  FRootMean(acc.sum, acc.count)

\* compute_rms (wav.rs:167-184)
compute_rms(samples) ==
    IF samples = <<>> THEN Fin(0)
    ELSE LET acc == SumSquares(samples, 0, 4)
         IN  FMin(FRootMean(acc.sum, acc.count), Fin(Scale))

---------------------------------------------------------------------------
(* Text, and the hallucination filter (engine.rs:293-326).  A text is the    *)
(* sequence of its words, separated by single spaces and trimmed; a word is  *)
(* known by its spelling, its spelling in lower case, its length in          *)
(* characters and its length in UTF-8 bytes.                                 *)

\* words a decoded text is made of: a one-letter word, a one-letter word that takes
\* two bytes, a word in two spellings that differ by case, another word
Vocabulary ==
    { [s |-> "x", lower |-> "x", chars |-> 1, bytes |-> 1],
      [s |-> "e-acute", lower |-> "e-acute", chars |-> 1, bytes |-> 2],
      [s |-> "word", lower |-> "word", chars |-> 4, bytes |-> 4],
      [s |-> "Word", lower |-> "word", chars |-> 4, bytes |-> 4],
      [s |-> "other", lower |-> "other", chars |-> 5, bytes |-> 5] }

RECURSIVE SumOf(_, _)
\* the sum of field f ("bytes" or "chars") over the words of a text
SumOf(text, f) == IF text = <<>> THEN 0 ELSE text[1][f] + SumOf(Tail(text), f)

\* str::len: the length of the text in bytes, separators included
byte_len(text) == IF text = <<>> THEN 0 ELSE SumOf(text, "bytes") + Len(text) - 1

\* str::to_lowercase, word by word
to_lowercase(text) == [k \in 1..Len(text) |-> [text[k] EXCEPT !.s = text[k].lower]]

\* split_whitespace().filter(|w| w.len() > 1): the words longer than one byte
split_words(text) == SelectSeq(text, LAMBDA w : w.bytes > 1)

\* the 3-word windows of a word list, as spellings
windows(words) ==
    [k \in 1..(IF Len(words) >= 3 THEN Len(words) - 2 ELSE 0) |->
        <<words[k].s, words[k + 1].s, words[k + 2].s>>]

\* some 3-gram is counted a third time in the loop over the windows
repeated_ngram(wins) ==
    \E k \in 1..Len(wins) : Cardinality({j \in 1..k : wins[j] = wins[k]}) >= 3

\* is_hallucination
is_hallucination(text) ==
    IF byte_len(text) < 20 THEN FALSE
    ELSE LET words == split_words(to_lowercase(text))
             unique == {words[k].s : k \in 1..Len(words)}
         IN  IF Len(words) < 4 THEN FALSE
             ELSE IF Cardinality(unique) * 100 < 25 * Len(words) THEN TRUE
             ELSE repeated_ngram(windows(words))

NoKern == [fn |-> "none", arg |-> <<>>, out |-> "none"]

\* a caller prepares the text: one more word
text_word ==
    /\ Len(kern.arg) < MaxWords
    /\ \E w \in Vocabulary :
         kern' = [fn |-> "none", arg |-> Append(kern.arg, w), out |-> "none"]
    /\ UNCHANGED <<capture, asr, meter, enh, dev>>

\* is_hallucination(&text)
text_is_hallucination ==
    /\ kern.fn = "none"
    /\ kern' = [kern EXCEPT !.fn = "is_hallucination",
                            !.out = IF is_hallucination(kern.arg) THEN "true" ELSE "false"]
    /\ UNCHANGED <<capture, asr, meter, enh, dev>>

---------------------------------------------------------------------------
(* SystemAudioHandle (capture.rs:20-64) and the state of its worker thread. *)

Handles == 1..MaxSessions

NoSession ==
    [h |-> "none",              \* the handle: none, live, stopping (in stop, joining),
                                \* dropping (in drop, joining), dropped
     stop_flag |-> FALSE,       \* Arc<AtomicBool>
     join_handle |-> FALSE,     \* Option<JoinHandle>: TRUE = Some
     joins |-> 0,               \* joins performed on the worker thread
     path |-> NoPath,           \* output_path moved into the worker
     pc |-> "none",             \* where the worker is in run_capture
     result |-> NoResult,       \* what the worker thread returned
     format |-> NoFormat,       \* session.format
     sopen |-> FALSE,           \* the LoopbackSession exists
     started |-> FALSE,         \* session.started
     writer |-> NoWriter,       \* AudioWavWriter
     file |-> NoFile,           \* the file at output_path
     delivered |-> <<>>,        \* packets obtained with GetBuffer, in order
     held |-> FALSE,            \* a packet is held and not released
     qerr |-> FALSE,            \* the drain pass before ended on a failed GetNextPacketSize
     waits |-> 0,               \* wait_for_buffer calls begun after the stop flag was written
     drains |-> 0]              \* drain passes begun after the stop flag was written

\* SystemAudioHandle::start: a fresh flag and a spawned worker
start(output_path) ==
    [NoSession EXCEPT !.h = "live", !.join_handle = TRUE,
                      !.path = output_path, !.pc = "open"]

\* stop that reads the join handle without taking it (as_ref instead of take)
stop_enter_keeping(s) ==
    IF s.join_handle
    THEN [s EXCEPT !.stop_flag = TRUE, !.h = "stopping"]
    ELSE [s EXCEPT !.stop_flag = TRUE]

\* SystemAudioHandle::stop up to the join: store the flag, take the join handle
stop_enter(s) ==
    IF s.join_handle
    THEN [s EXCEPT !.stop_flag = TRUE, !.join_handle = FALSE, !.h = "stopping"]
    ELSE [s EXCEPT !.stop_flag = TRUE]

\* a stop that answers with the path whatever the worker returned
stop_value_path(s) == OkPath(s.path)

\* what stop returns once the join is over: the worker's result, a panic mapped
stop_value(s) ==
    IF s.result.tag = "Panic" THEN Err("CaptureThreadPanicked") ELSE s.result

\* stop that rearms the flag after the join, as if the handle could be started again
stop_exit_rearming(s) == [s EXCEPT !.h = "live", !.joins = @ + 1, !.stop_flag = FALSE]

\* SystemAudioHandle::stop after the join
stop_exit(s) == [s EXCEPT !.h = "live", !.joins = @ + 1]

\* a handle that no longer exists: its flag, its worker's end and the joins made
\* on the worker are all that is remembered
dropped(s) ==
    [NoSession EXCEPT !.h = "dropped", !.stop_flag = s.stop_flag, !.pc = s.pc,
                      !.joins = s.joins]

\* Drop that signals the worker and detaches it instead of joining it
drop_detaching(s) == dropped([s EXCEPT !.stop_flag = TRUE, !.join_handle = FALSE])

\* Drop for SystemAudioHandle up to the join
drop_enter(s) ==
    IF s.join_handle
    THEN [s EXCEPT !.stop_flag = TRUE, !.join_handle = FALSE, !.h = "dropping"]
    ELSE dropped([s EXCEPT !.stop_flag = TRUE])

\* Drop for SystemAudioHandle after the join: the result is discarded
drop_exit(s) == dropped([s EXCEPT !.joins = @ + 1])

---------------------------------------------------------------------------
(* The capture worker: run_capture, capture_loop, drain_packets.            *)

\* run_capture returns r: its locals are dropped (session, writer)
exit_worker(s, r) ==
    [s EXCEPT !.pc = "exited", !.result = r, !.sopen = FALSE, !.qerr = FALSE,
              !.writer = [@ EXCEPT !.open = FALSE]]

\* the ways LoopbackSession::open ends (wasapi.rs:81-148)
OpenOutcomes ==
    {"enumerator_err", "endpoint_err", "activate_err", "mixformat_err", "event_err",
     "init_err", "sethandle_err", "service_err", "log_panic", "ok_event", "ok_polling"}

\* ComGuard::init, then LoopbackSession::open
WOpen(i) ==
    /\ sess[i].pc = "open"
    /\ \E o \in OpenOutcomes, fmt \in Formats :
         sess' = [sess EXCEPT ![i] =
            IF o \in {"ok_event", "ok_polling"}
            THEN [@ EXCEPT !.pc = "create", !.sopen = TRUE, !.format = fmt]
            ELSE IF o = "log_panic" THEN exit_worker(@, Panicked)
            ELSE exit_worker(@, Err("AudioCapture"))]
    /\ UNCHANGED <<now, gen, capture_lock, mutex, npk, ret, aux>>

\* AudioWavWriter::create(output_path, session.format)
WCreate(i) ==
    /\ sess[i].pc = "create"
    /\ \E ok \in BOOLEAN :
         sess' = [sess EXCEPT ![i] =
            IF ok
            THEN [@ EXCEPT !.pc = "start", !.writer = create(sess[i].format).w,
                           !.file = create(sess[i].format).f]
            ELSE exit_worker(@, Err("WavEncode"))]
    /\ UNCHANGED <<now, gen, capture_lock, mutex, npk, ret, aux>>

\* session.start()
WStart(i) ==
    /\ sess[i].pc = "start"
    /\ \E ok \in BOOLEAN :
         sess' = [sess EXCEPT ![i] =
            IF ok
            THEN [@ EXCEPT !.pc = "check", !.started = TRUE]
            ELSE exit_worker(@, Err("AudioCapture"))]
    /\ UNCHANGED <<now, gen, capture_lock, mutex, npk, ret, aux>>

\* while !stop_flag.load(Acquire)
loop_test(s) ==
    [s EXCEPT !.pc = IF s.stop_flag THEN "final_begin" ELSE "wait"]

WCheck(i) ==
    /\ sess[i].pc = "check"
    /\ sess' = [sess EXCEPT ![i] = loop_test(@)]
    /\ UNCHANGED <<now, gen, capture_lock, mutex, npk, ret, aux>>

\* session.wait_for_buffer(): returns on the event or after the timeout
WWait(i) ==
    /\ sess[i].pc = "wait"
    /\ sess' = [sess EXCEPT ![i] =
            [@ EXCEPT !.pc = "drain_begin",
                      !.waits = IF sess[i].stop_flag THEN @ + 1 ELSE @]]
    /\ UNCHANGED <<now, gen, capture_lock, mutex, npk, ret, aux>>

DrainPcs == {"drain_begin", "drain", "final_begin", "final"}

\* a drain pass passes its first GetNextPacketSize
in_pass(s) ==
    [s EXCEPT !.pc = IF @ \in {"drain_begin", "drain"} THEN "drain" ELSE "final",
              !.qerr = FALSE,
              !.drains = IF s.pc \in {"drain_begin", "final_begin"} /\ s.stop_flag
                         THEN @ + 1 ELSE @]

\* drain_packets, one packet: GetBuffer, write_silence or write_raw, ReleaseBuffer
drain_packet(s, p, o, t) ==
    IF o = "getbuffer_err" THEN exit_worker(s, Err("AudioCapture"))
    ELSE IF o = "write_err"
    THEN exit_worker([s EXCEPT !.delivered = Append(@, p), !.held = TRUE,
                               !.file = write_failed(@, t)],
                     Err("WavEncode"))
    ELSE LET wf == IF p.silent THEN write_silence(s.writer, s.file, p.frames)
                   ELSE write_raw(s.writer, s.file, p.frames)
         IN  [s EXCEPT !.delivered = Append(@, p), !.held = FALSE,
                       !.writer = wf.w, !.file = wf.f]

\* GetNextPacketSize > 0
WDrainPacket(i) ==
    /\ sess[i].pc \in DrainPcs
    /\ npk < MaxPackets
    /\ npk' = npk + 1
    /\ \E p \in Packets, o \in {"ok", "getbuffer_err", "write_err"}, t \in BOOLEAN :
         sess' = [sess EXCEPT ![i] = drain_packet(in_pass(@), p, o, t)]
    /\ UNCHANGED <<now, gen, capture_lock, mutex, ret, aux>>

\* a final drain that falls back into the loop instead of leaving it
drain_end_looping(s) == [s EXCEPT !.pc = "check"]

\* a final drain after which run_capture finalizes with the session still open
drain_end_keeping_session(s) ==
    [s EXCEPT !.pc = IF @ = "drain" THEN "check" ELSE "finalize"]

\* GetNextPacketSize is 0: the pass ends
drain_end(s) ==
    [s EXCEPT !.pc = IF @ = "drain" THEN "check" ELSE "drop_session"]

WDrainEmpty(i) ==
    /\ sess[i].pc \in DrainPcs
    /\ sess' = [sess EXCEPT ![i] = drain_end(in_pass(@))]
    /\ UNCHANGED <<now, gen, capture_lock, mutex, npk, ret, aux>>

\* GetNextPacketSize fails (the endpoint or its driver is gone): unwrap_or(0) turns
\* the error into a size of 0, the pass ends as it does on an empty queue
query_failed(s) == [drain_end(s) EXCEPT !.qerr = TRUE]

WDrainQueryErr(i) ==
    /\ sess[i].pc \in DrainPcs
    /\ sess' = [sess EXCEPT ![i] = query_failed(in_pass(@))]
    /\ UNCHANGED <<now, gen, capture_lock, mutex, npk, ret, aux>>

\* drop(session): Stop if started, CoTaskMemFree
WDropSession(i) ==
    /\ sess[i].pc = "drop_session"
    /\ sess' = [sess EXCEPT ![i] = [@ EXCEPT !.pc = "finalize", !.sopen = FALSE]]
    /\ UNCHANGED <<now, gen, capture_lock, mutex, npk, ret, aux>>

\* run_capture that discards the result of finalize (let _ = writer.finalize())
finalize_unchecked(s, o) ==
    IF o = "io_err" THEN [s EXCEPT !.pc = "report", !.writer = [@ EXCEPT !.open = FALSE]]
    ELSE IF o = "checked" /\ finalize_overflows(s.writer) THEN exit_worker(s, Panicked)
    ELSE [s EXCEPT !.pc = "report", !.file = finalize(s.writer, @),
                   !.writer = [@ EXCEPT !.open = FALSE]]

\* writer.finalize()?
finalize_step(s, o) ==
    IF o = "io_err" THEN exit_worker(s, Err("WavEncode"))
    ELSE IF o = "checked" /\ finalize_overflows(s.writer) THEN exit_worker(s, Panicked)
    ELSE [s EXCEPT !.pc = "report", !.file = finalize(s.writer, @),
                   !.writer = [@ EXCEPT !.open = FALSE]]

\* the outcomes of finalize: an I/O error, or success in a build with overflow
\* checks ("checked") or without ("wrapping")
WFinalize(i) ==
    /\ sess[i].pc = "finalize"
    /\ \E o \in {"io_err", "checked", "wrapping"} :
         sess' = [sess EXCEPT ![i] = finalize_step(@, o)]
    /\ UNCHANGED <<now, gen, capture_lock, mutex, npk, ret, aux>>

\* metadata, eprintln! (which panics when stderr cannot be written), Ok(output_path)
WReport(i) ==
    /\ sess[i].pc = "report"
    /\ \E ok \in BOOLEAN :
         sess' = [sess EXCEPT ![i] =
            exit_worker(@, IF ok THEN OkPath(@.path) ELSE Panicked)]
    /\ UNCHANGED <<now, gen, capture_lock, mutex, npk, ret, aux>>

Worker(i) ==
    \/ WOpen(i) \/ WCreate(i) \/ WStart(i) \/ WCheck(i) \/ WWait(i)
    \/ WDrainPacket(i) \/ WDrainEmpty(i) \/ WDrainQueryErr(i)
    \/ WDropSession(i) \/ WFinalize(i) \/ WReport(i)

---------------------------------------------------------------------------
(* The level meter of the capture loop (capture.rs:103-188): what            *)
(* drain_packets and capture_loop do with the level of each packet, next to  *)
(* the sink the packets go to.                                               *)

\* const LEVEL_EMIT_INTERVAL (capture.rs:101)
LEVEL_EMIT_INTERVAL == 10

\* f32 samples a packet may hold: in range, out of range, not finite
FloatVals == {Fin(0), Fin(0 - 250), Fin(3000), NaN, Inf}

\* i16 samples a packet may hold
I16Vals == {0 - 32768, 0, 16384}

\* what the buffer of a packet holds for a session format: i16 samples for a 16-bit
\* integer source, else 32-bit words that write_raw reads as f32
SourceVals(fmt) ==
    IF ~fmt.is_float /\ fmt.bits_per_sample = 16 THEN I16Vals ELSE FloatVals

\* packet buffers of n samples: the samples compute_rms visits (the first, the
\* fifth) vary freely, the others share one value
Buffers(fmt, n) ==
    { [i \in 1..n |-> IF i = 1 THEN a ELSE IF (i - 1) % 4 = 0 THEN b ELSE c] :
        a \in SourceVals(fmt), b \in SourceVals(fmt), c \in SourceVals(fmt) }

\* frame counts of the packets the meter sees
MeterFrames == {0, 3}

\* s as f32 / 32768.0
i16_to_f32(x) == Fin((x * Scale) \div 32768)

\* the level write_raw returns for a packet buffer, by encoding branch
write_raw_level(fmt, data) ==
    IF fmt.is_float /\ fmt.bits_per_sample = 32 THEN compute_rms(data)
    ELSE IF ~fmt.is_float /\ fmt.bits_per_sample = 16
    THEN compute_rms([i \in 1..Len(data) |-> i16_to_f32(data[i])])
    ELSE compute_rms(data)

NoEvent == [k |-> "none", v |-> 0]

NoMeter ==
    [pc |-> "none",             \* none, pass (drain of a loop iteration), final, done, failed
     format |-> NoFormat,
     writer |-> NoWriter,
     file |-> NoFile,
     packets |-> 0,             \* packets obtained with GetBuffer
     read |-> FALSE,            \* write_raw has read a packet buffer
     all_silent |-> TRUE,       \* every packet so far carried the SILENT flag
     level |-> Fin(0),          \* level of the last packet
     max_level |-> Fin(0),      \* drain_packets: max_level
     peak_level |-> Fin(0),     \* capture_loop: peak_level
     iter_count |-> 0,          \* capture_loop: iter_count
     event |-> NoEvent,         \* level given to the last app.emit("audio-level", ..)
     emit_ok |-> TRUE,          \* the last app.emit reached the host
     iters |-> 0,               \* loop iterations completed
     emits |-> 0,               \* calls of app.emit
     seen |-> Fin(0)]           \* greatest packet level since the last emit, or the start

\* drain_packets that takes every packet for audio, whatever its flags
drain_level_ignoring_flags(m, p) ==
    LET wf == write_raw(m.writer, m.file, p.frames)
        level == write_raw_level(m.format, p.data)
    IN  [m EXCEPT !.writer = wf.w, !.file = wf.f, !.packets = @ + 1,
                  !.read = TRUE, !.all_silent = @ /\ p.silent, !.level = level,
                  !.max_level = IF FGt(level, @) THEN level ELSE @,
                  !.seen = IF m.pc = "pass" /\ level.k = "fin" /\ level.v > @.v
                           THEN level ELSE @]

\* drain_packets, one packet written: silence or raw by the SILENT flag, the level,
\* the maximum of the pass
drain_level(m, p) ==
    LET wf == IF p.silent THEN write_silence(m.writer, m.file, p.frames)
              ELSE write_raw(m.writer, m.file, p.frames)
        level == IF p.silent THEN Fin(0) ELSE write_raw_level(m.format, p.data)
    IN  [m EXCEPT !.writer = wf.w, !.file = wf.f, !.packets = @ + 1,
                  !.read = @ \/ ~p.silent, !.all_silent = @ /\ p.silent, !.level = level,
                  !.max_level = IF FGt(level, @) THEN level ELSE @,
                  !.seen = IF m.pc = "pass" /\ level.k = "fin" /\ level.v > @.v
                           THEN level ELSE @]

\* a capture loop that emits once the count has passed LEVEL_EMIT_INTERVAL
loop_level_late(m, ok) ==
    LET peak == IF FGt(m.max_level, m.peak_level) THEN m.max_level ELSE m.peak_level
    IN  IF m.iter_count + 1 > LEVEL_EMIT_INTERVAL
        THEN [m EXCEPT !.event = peak, !.emit_ok = ok, !.emits = @ + 1,
                       !.peak_level = Fin(0), !.iter_count = 0, !.max_level = Fin(0),
                       !.iters = @ + 1, !.seen = Fin(0)]
        ELSE [m EXCEPT !.peak_level = peak, !.iter_count = @ + 1, !.max_level = Fin(0),
                       !.iters = @ + 1]

\* capture_loop after drain_packets returns: the peak, the iteration count, the
\* event every LEVEL_EMIT_INTERVAL iterations, whose result is discarded (ok tells
\* whether it reached the host); the next drain starts from level 0
loop_level(m, ok) ==
    LET peak == IF FGt(m.max_level, m.peak_level) THEN m.max_level ELSE m.peak_level
    IN  IF m.iter_count + 1 >= LEVEL_EMIT_INTERVAL
        THEN [m EXCEPT !.event = peak, !.emit_ok = ok, !.emits = @ + 1,
                       !.peak_level = Fin(0), !.iter_count = 0, !.max_level = Fin(0),
                       !.iters = @ + 1, !.seen = Fin(0)]
        ELSE [m EXCEPT !.peak_level = peak, !.iter_count = @ + 1, !.max_level = Fin(0),
                       !.iters = @ + 1]

\* the worker reaches capture_loop with an open sink; the loop test
meter_start ==
    /\ meter.pc = "none"
    /\ \E fmt \in Formats, stop \in BOOLEAN :
         meter' = [NoMeter EXCEPT !.pc = IF stop THEN "final" ELSE "pass",
                                  !.format = fmt, !.writer = create(fmt).w,
                                  !.file = create(fmt).f]
    /\ UNCHANGED <<capture, asr, kern, enh, dev>>

\* drain_packets: one packet; the buffer of a packet counts only where it is read
meter_packet ==
    /\ meter.pc \in {"pass", "final"}
    /\ meter.packets < MaxPackets
    /\ \E silent \in BOOLEAN, frames \in MeterFrames, ok \in BOOLEAN :
         \E data \in IF silent \/ ~ok THEN {<<>>}
                     ELSE Buffers(meter.format, frames * meter.format.channels) :
            meter' = IF ok
                     THEN drain_level(meter, [frames |-> frames, silent |-> silent,
                                              data |-> data])
                     ELSE [meter EXCEPT !.pc = "failed", !.packets = @ + 1,
                                        !.all_silent = @ /\ silent,
                                        !.read = @ \/ ~silent,
                                        !.file = write_failed(@, TRUE),
                                        !.writer = [@ EXCEPT !.open = FALSE]]
    /\ UNCHANGED <<capture, asr, kern, enh, dev>>

\* the drain of a loop iteration returns; the loop test, which finds the stop flag
\* set after MaxIters iterations at the latest
meter_pass ==
    /\ meter.pc = "pass"
    /\ \E stop \in BOOLEAN, ok \in BOOLEAN :
         /\ meter.iters + 1 >= MaxIters => stop
         /\ ok \/ meter.iter_count + 1 >= LEVEL_EMIT_INTERVAL
         /\ meter' = [loop_level(meter, ok) EXCEPT !.pc = IF stop THEN "final" ELSE "pass"]
    /\ UNCHANGED <<capture, asr, kern, enh, dev>>

\* the final drain returns, its level is discarded; finalize
meter_final ==
    /\ meter.pc = "final"
    /\ \E ok \in BOOLEAN :
         meter' = IF ok
                  THEN [meter EXCEPT !.pc = "done", !.file = finalize(meter.writer, @),
                                     !.writer = [@ EXCEPT !.open = FALSE]]
                  ELSE [meter EXCEPT !.pc = "failed", !.writer = [@ EXCEPT !.open = FALSE]]
    /\ UNCHANGED <<capture, asr, kern, enh, dev>>

---------------------------------------------------------------------------
(* The command surface (commands.rs:11-63).  Each command body runs under   *)
(* the capture mutex; stop holds it while it joins the worker.              *)

\* start_system_audio_capture without the is_some() test: the new handle replaces
\* the one in the slot, whose destructor then waits for its worker
start_unchecked ==
    /\ mutex = "free"
    /\ gen < MaxSessions
    /\ gen' = gen + 1
    /\ \E timestamp \in 0..MaxClock :
         /\ now' = timestamp
         /\ sess' = [i \in Handles |->
                      IF i = gen + 1 THEN start(timestamp)
                      ELSE IF i = capture_lock THEN drop_enter(sess[i]) ELSE sess[i]]
    /\ capture_lock' = gen + 1
    /\ ret' = [op |-> "start", h |-> gen + 1, val |-> OkMsg("System audio capture started")]
    /\ UNCHANGED <<mutex, npk, aux>>

\* start_system_audio_capture: the wall clock is read (SystemTime, which may repeat
\* a value or go back) and the path is recogni_system_audio_{timestamp}.wav; the
\* path stands for its timestamp
start_system_audio_capture ==
    /\ mutex = "free"
    /\ IF capture_lock # 0
       THEN /\ ret' = [op |-> "start", h |-> 0, val |-> Err("CaptureAlreadyRunning")]
            /\ UNCHANGED <<now, gen, capture_lock, sess>>
       ELSE /\ gen < MaxSessions
            /\ \E timestamp \in 0..MaxClock, spawned \in BOOLEAN :
                 /\ now' = timestamp
                 /\ IF spawned
                    THEN /\ gen' = gen + 1
                         /\ sess' = [sess EXCEPT ![gen + 1] = start(timestamp)]
                         /\ capture_lock' = gen + 1
                         /\ ret' = [op |-> "start", h |-> gen + 1,
                                    val |-> OkMsg("System audio capture started")]
                    ELSE /\ ret' = [op |-> "start", h |-> 0, val |-> Err("AudioCapture")]
                         /\ UNCHANGED <<gen, capture_lock, sess>>
    /\ UNCHANGED <<mutex, npk, aux>>

\* stop_system_audio_capture that borrows the handle (as_mut) instead of taking it
stop_borrowing ==
    /\ mutex = "free"
    /\ IF capture_lock = 0
       THEN /\ ret' = [op |-> "stop", h |-> 0, val |-> Err("NoCaptureRunning")]
            /\ UNCHANGED <<mutex, sess>>
       ELSE /\ sess[capture_lock].join_handle
            /\ mutex' = "stop"
            /\ sess' = [sess EXCEPT ![capture_lock] = stop_enter(@)]
            /\ UNCHANGED ret
    /\ UNCHANGED <<now, gen, npk, capture_lock, aux>>

\* stop_system_audio_capture up to the join inside handle.stop()
stop_system_audio_capture ==
    /\ mutex = "free"
    /\ IF capture_lock = 0
       THEN /\ ret' = [op |-> "stop", h |-> 0, val |-> Err("NoCaptureRunning")]
            /\ UNCHANGED <<capture_lock, mutex, sess>>
       ELSE /\ capture_lock' = 0
            /\ IF sess[capture_lock].join_handle
               THEN /\ mutex' = "stop"
                    /\ sess' = [sess EXCEPT ![capture_lock] = stop_enter(@)]
                    /\ UNCHANGED ret
               ELSE /\ sess' = [sess EXCEPT ![capture_lock] = drop_enter(stop_enter(@))]
                    /\ ret' = [op |-> "stop", h |-> capture_lock,
                               val |-> Err("CaptureAlreadyStopped")]
                    /\ UNCHANGED mutex
    /\ UNCHANGED <<now, gen, npk, aux>>

\* stop_system_audio_capture from the join on: the worker has exited, stop returns
\* its value, the handle goes out of scope and the mutex guard is released
stop_returns ==
    /\ mutex = "stop"
    /\ \E i \in Handles :
        /\ sess[i].h = "stopping"
        /\ sess[i].pc = "exited"
        /\ ret' = [op |-> "stop", h |-> i, val |-> stop_value(sess[i])]
        /\ sess' = [sess EXCEPT ![i] = drop_enter(stop_exit(@))]
    /\ mutex' = "free"
    /\ UNCHANGED <<now, gen, capture_lock, npk, aux>>

\* check_available (wasapi.rs:207-214) on a device in the condition o, named by how
\* LoopbackSession::open would end on it: the enumerator is created and the default
\* render endpoint is fetched, nothing more
check_available(o) == o \notin {"enumerator_err", "endpoint_err"}

\* LoopbackSession::open succeeds on a device in the condition o
open_succeeds(o) == o \in {"ok_event", "ok_polling"}

\* the answer of the probe, with what an open at that moment would have met
Probed(answer, o) ==
    [tag |-> IF answer THEN "true" ELSE "false",
     msg |-> IF open_succeeds(o) THEN "open_ok" ELSE "open_err",
     path |-> NoPath]

\* is_system_audio_available: check_available on a blocking task; the capture mutex
\* is not taken
is_system_audio_available ==
    /\ \E o \in OpenOutcomes :
         ret' = [op |-> "is_available", h |-> 0, val |-> Probed(check_available(o), o)]
    /\ UNCHANGED <<now, gen, capture_lock, mutex, sess, npk, aux>>

---------------------------------------------------------------------------
(* MoonshineEngine::transcribe (engine.rs:120-263).  An audio buffer is a    *)
(* sequence of runs [v, n]: n consecutive samples of value v.               *)

\* has_voice_activity: VAD_RMS_THRESHOLD, in thousandths
VAD_RMS_THRESHOLD == 15
\* has_voice_activity: STEP
STEP == 4
\* samples per second of the audio given to transcribe
SampleRate == 16000
\* tokens allowed per second of audio
TokensPerSecond == 6

AudioRuns == [v : {Fin(0), Fin(14), Fin(15), Fin(0 - 500), NaN}, n : {1, 5334}]

Audios ==
    {<<>>} \cup {<<r>> : r \in AudioRuns} \cup {<<r, q>> : r \in AudioRuns, q \in AudioRuns}

\* the values logits can put first: token ids
TokenIds == 0..2

\* MoonshineConfig: the fields transcribe reads, and with them the number of outputs
\* of the decoder graph of the model: the logits and a present tensor for every
\* cache entry, or for the entries of the first layer's decoder module only
Configs ==
    { [eos_token_id |-> 0, decoder_start_token_id |-> 0, max_position_embeddings |-> 2048,
       decoder_num_key_value_heads |-> 8, decoder_num_hidden_layers |-> 2,
       hidden_size |-> 416, decoder_outputs |-> 9],
      [eos_token_id |-> 2, decoder_start_token_id |-> 1, max_position_embeddings |-> 2,
       decoder_num_key_value_heads |-> 2, decoder_num_hidden_layers |-> 1,
       hidden_size |-> 4, decoder_outputs |-> 3] }

\* config.json files from_json takes as well: any unsigned value is accepted for the
\* sizes, a head count of 0 or above the hidden size included
OddConfigs ==
    LET config == CHOOSE c \in Configs : c.eos_token_id = 0
    IN  { [config EXCEPT !.decoder_num_key_value_heads = 0],
          [config EXCEPT !.hidden_size = 4] }

\* what tokenizer.decode can give, trimmed: nothing, one word, a word said five
\* times, four different words
DecodedTexts ==
    LET W(s) == CHOOSE w \in Vocabulary : w.s = s
    IN  { <<>>, <<W("word")>>,
          <<W("word"), W("word"), W("Word"), W("word"), W("word")>>,
          <<W("other"), W("word"), W("x"), W("e-acute")>> }

RECURSIVE audio_len(_)
\* audio.len()
audio_len(audio) == IF audio = <<>> THEN 0 ELSE audio[1].n + audio_len(Tail(audio))

\* n * x for a count n
FTimes(n, x) == IF x.k = "fin" THEN Fin(n * x.v) ELSE IF n = 0 THEN Fin(0) ELSE x

\* a >= b: false when either side is NaN
FGe(a, b) ==
    /\ a.k # "nan" /\ b.k # "nan"
    /\ \/ a.k = "inf"
       \/ a.k = "fin" /\ b.k = "fin" /\ a.v >= b.v

\* the indices i with i % step = 0 among the n indices from index from on
stepped(from, n, step) == ((from + n + step - 1) \div step) - ((from + step - 1) \div step)

RECURSIVE fold_squares(_, _, _)
\* audio.iter().step_by(step).fold(...): the sum of squares and the count of the
\* samples taken, for the runs that begin at index from
fold_squares(audio, from, step) ==
    IF audio = <<>> THEN [sum |-> Fin(0), count |-> 0]
    ELSE LET taken == stepped(from, audio[1].n, step)
             rest == fold_squares(Tail(audio), from + audio[1].n, step)
         IN  [sum |-> FAdd(FTimes(taken, FSquare(audio[1].v)), rest.sum),
              count |-> taken + rest.count]

\* has_voice_activity with the comparison turned around
has_voice_activity_inverted(audio) ==
    LET acc == fold_squares(audio, 0, STEP)
        rms == FRootMean(acc.sum, IF acc.count > 1 THEN acc.count ELSE 1)
    IN  ~ FGe(rms, Fin(VAD_RMS_THRESHOLD))

\* has_voice_activity
has_voice_activity(audio) ==
    LET acc == fold_squares(audio, 0, STEP)
        rms == FRootMean(acc.sum, IF acc.count > 1 THEN acc.count ELSE 1)
    IN  FGe(rms, Fin(VAD_RMS_THRESHOLD))

\* normalize_audio: the length of what it returns
normalized_len(audio) == audio_len(audio)

\* max_len
max_len(config, len) ==
    LET wanted == (len * TokensPerSecond) \div SampleRate
        capped == IF wanted < config.max_position_embeddings
                  THEN wanted ELSE config.max_position_embeddings
    IN  IF capped > 1 THEN capped ELSE 1

\* dim_kv
dim_kv(config) == config.hidden_size \div config.decoder_num_key_value_heads

\* the entry pushed in the j-th iteration (from 0) of the three nested loops: the
\* name past_key_values.{layer}.{module}.{kv} as its parts, the placeholder shape and
\* a zero-filled buffer of num_heads * dim_kv values
KvEntry(config, j) ==
    [name |-> <<"past_key_values", j \div 4,
                IF (j % 4) \div 2 = 0 THEN "decoder" ELSE "encoder",
                IF j % 2 = 0 THEN "key" ELSE "value">>,
     shape |-> <<1, config.decoder_num_key_value_heads, 1, dim_kv(config)>>,
     data |-> [k |-> "zeros",
               n |-> config.decoder_num_key_value_heads * dim_kv(config)]]

\* the KV cache before the decoding loop
kv_init(config) ==
    [j \in 1..(4 * config.decoder_num_hidden_layers) |-> KvEntry(config, j - 1)]

\* an update that takes every output on every step
kv_update_all(config, kv_cache, step) ==
    [j \in 1..Len(kv_cache) |->
        IF j < config.decoder_outputs
        THEN [kv_cache[j] EXCEPT !.shape = [@ EXCEPT ![3] = step + 1],
                                 !.data = [k |-> "present", n |-> step]]
        ELSE kv_cache[j]]

\* the KV cache after the update of a step that pushed a token: entry j takes the
\* decoder's output j when there is one, on step 0 or when its name contains
\* "decoder"; the tensor it takes is the one the decoder made on that step
kv_update(config, kv_cache, step) ==
    [j \in 1..Len(kv_cache) |->
        IF j < config.decoder_outputs /\ (step = 0 \/ kv_cache[j].name[3] = "decoder")
        THEN [kv_cache[j] EXCEPT !.shape = [@ EXCEPT ![3] = step + 1],
                                 !.data = [k |-> "present", n |-> step]]
        ELSE kv_cache[j]]

OkText(t) == [tag |-> "Ok", text |-> t, err |-> "none"]
PanicVal == [tag |-> "Panic", text |-> <<>>, err |-> "none"]
ErrOf(e) == [tag |-> "Err", text |-> <<>>, err |-> e]
NoVal == [tag |-> "none", text |-> <<>>, err |-> "none"]

\* one call of transcribe: where it is, its argument, its locals, what it returned, and
\* how many times it ran the encoder and the decoder
NoRun ==
    [pc |-> "idle", audio |-> <<>>, max_len |-> 0, generated_tokens |-> <<>>,
     kv_cache |-> <<>>, encoder_runs |-> 0, decoder_runs |-> 0, val |-> NoVal]

returned(r, val) == [r EXCEPT !.pc = "returned", !.val = val]

\* transcribe up to the encoder: the two early returns
transcribe_enter(audio) ==
    LET r == [NoRun EXCEPT !.audio = audio]
    IN  IF audio = <<>> THEN returned(r, OkText(<<>>))
        ELSE IF ~ has_voice_activity(audio) THEN returned(r, OkText(<<>>))
        ELSE [r EXCEPT !.pc = "encoder"]

\* the encoder run and the preparation of the decoding loop; dim_kv divides by the
\* head count
encoder_step(config, r, ok) ==
    IF ~ ok THEN returned([r EXCEPT !.encoder_runs = @ + 1], ErrOf("Transcription"))
    ELSE IF config.decoder_num_key_value_heads = 0
    THEN returned([r EXCEPT !.encoder_runs = @ + 1], PanicVal)
    ELSE [r EXCEPT !.pc = "decoder", !.encoder_runs = @ + 1,
                   !.max_len = max_len(config, normalized_len(r.audio)),
                   !.generated_tokens = <<config.decoder_start_token_id>>,
                   !.kv_cache = kv_init(config)]

\* one iteration of the decoding loop that pushes whatever token comes first
decoder_step_pushing(config, r, ok, next_token) ==
    LET ran == [r EXCEPT !.decoder_runs = @ + 1]
    IN  IF ~ ok THEN returned(ran, ErrOf("Transcription"))
        ELSE [ran EXCEPT !.generated_tokens = Append(@, next_token),
                         !.kv_cache = kv_update(config, @, r.decoder_runs),
                         !.pc = IF ran.decoder_runs = r.max_len THEN "tokenizer" ELSE "decoder"]

\* one iteration of the decoding loop; next_token is the argmax of the logits, and
\* ok is false when the decoder run or the extraction fails
decoder_step(config, r, ok, next_token) ==
    LET ran == [r EXCEPT !.decoder_runs = @ + 1]
    IN  IF ~ ok THEN returned(ran, ErrOf("Transcription"))
        ELSE IF next_token = config.eos_token_id THEN [ran EXCEPT !.pc = "tokenizer"]
        ELSE [ran EXCEPT !.generated_tokens = Append(@, next_token),
                         !.kv_cache = kv_update(config, @, r.decoder_runs),
                         !.pc = IF ran.decoder_runs = r.max_len THEN "tokenizer" ELSE "decoder"]

\* tokenizer.decode, trim and the hallucination filter; text is the decoded text, and
\* ok is false when decode fails
tokenizer_step(r, ok, text) ==
    IF ~ ok THEN returned(r, ErrOf("Transcription"))
    ELSE IF is_hallucination(text) THEN returned(r, OkText(<<>>))
    ELSE returned(r, OkText(text))

---------------------------------------------------------------------------
(* The transcription state of the application: the engine slot behind its   *)
(* mutex (state.rs), and the calls of the transcription commands.           *)

Calls == 1..MaxCalls

NoEngine ==
    [eos_token_id |-> 0 - 1, decoder_start_token_id |-> 0 - 1, max_position_embeddings |-> 0,
     decoder_num_key_value_heads |-> 0, decoder_num_hidden_layers |-> 0, hidden_size |-> 0,
     decoder_outputs |-> 0]

NoCall == [cmd |-> "none", on |-> "none", pc |-> "none", run |-> NoRun]

NoAsrRet == [cmd |-> "none", call |-> 0, val |-> NoVal, loaded |-> FALSE, downloaded |-> FALSE]

NoAsr ==
    [engine |-> NoEngine, lock |-> 0, calls |-> [c \in Calls |-> NoCall],
     ret |-> NoAsrRet, live |-> FALSE]

\* the buffers the front end sends: an empty one and a voiced one
AsrAudios == {<<>>, <<[v |-> Fin(0 - 500), n |-> 1]>>}

\* the next call of a command: the lowest id not used yet
fresh(a, c) ==
    /\ a.calls[c].pc = "none"
    /\ \A b \in Calls : b < c => a.calls[b].pc # "none"

\* a command handler begins to run: on a blocking worker when its body is given to
\* spawn_blocking, on the request-servicing (async) context otherwise; the first
\* thing every handler does is to lock the slot
invoked(cmd, on, audio) ==
    [cmd |-> cmd, on |-> on, pc |-> "lock", run |-> [NoRun EXCEPT !.audio = audio]]

Done == [NoCall EXCEPT !.pc = "done"]

\* Mutex::lock that does not wait
can_lock_always(a) == TRUE

\* Mutex::lock returns once no other holder is left
can_lock(a) == a.lock = 0

\* the handler of call c returns: its guard is dropped
return(a, c, val, loaded, downloaded) ==
    [a EXCEPT !.lock = 0, !.calls[c] = Done,
              !.ret = [cmd |-> a.calls[c].cmd, call |-> c, val |-> val,
                       loaded |-> loaded, downloaded |-> downloaded]]

\* unload that leaves the slot as it is
unload_keeping(a) == a

\* *lock = None
unload(a) == [a EXCEPT !.engine = NoEngine]

\* *lock = Some(engine)
store(a, config) == [a EXCEPT !.engine = config]

transcription_load_model(c) ==
    /\ fresh(asr, c)
    /\ asr' = [asr EXCEPT !.calls[c] = invoked("load", "blocking", <<>>)]
    /\ UNCHANGED <<capture, meter, kern, enh, dev>>

transcription_transcribe(c) ==
    /\ fresh(asr, c)
    /\ \E audio \in AsrAudios :
         asr' = [asr EXCEPT !.calls[c] = invoked("transcribe", "blocking", audio)]
    /\ UNCHANGED <<capture, meter, kern, enh, dev>>

transcription_unload_model(c) ==
    /\ fresh(asr, c)
    /\ asr' = [asr EXCEPT !.calls[c] = invoked("unload", "async", <<>>)]
    /\ UNCHANGED <<capture, meter, kern, enh, dev>>

transcription_model_status(c) ==
    /\ fresh(asr, c)
    /\ asr' = [asr EXCEPT !.calls[c] = invoked("status", "async", <<>>)]
    /\ UNCHANGED <<capture, meter, kern, enh, dev>>

\* state.lock()
asr_lock(c) ==
    /\ asr.calls[c].pc = "lock"
    /\ can_lock(asr)
    /\ asr' = [asr EXCEPT !.lock = c, !.calls[c].pc = "held"]
    /\ UNCHANGED <<capture, meter, kern, enh, dev>>

\* transcription_load_model under the lock: the slot is occupied, or
\* download_and_load fails, or it gives an engine that is stored
load_body(c) ==
    /\ asr.calls[c].pc = "held" /\ asr.calls[c].cmd = "load"
    /\ \/ /\ asr.engine # NoEngine
          /\ asr' = return(asr, c, OkText(<<>>), TRUE, FALSE)
       \/ /\ asr.engine = NoEngine
          /\ \E e \in {"ModelDownload", "Transcription"} :
               asr' = return(asr, c, ErrOf(e), FALSE, FALSE)
       \/ /\ asr.engine = NoEngine
          /\ \E config \in Configs, downloaded \in BOOLEAN :
               asr' = [return(store(asr, config), c, OkText(<<>>), TRUE, downloaded)
                          EXCEPT !.live = TRUE]
    /\ UNCHANGED <<capture, meter, kern, enh, dev>>

\* transcription_transcribe under the lock: match lock.as_mut()
transcribe_body(c) ==
    /\ asr.calls[c].pc = "held" /\ asr.calls[c].cmd = "transcribe"
    /\ asr.calls[c].run.pc = "idle"
    /\ asr' = IF asr.engine = NoEngine
              THEN return(asr, c, ErrOf("ModelNotLoaded"), FALSE, FALSE)
              ELSE [asr EXCEPT !.calls[c].run = transcribe_enter(@.audio)]
    /\ UNCHANGED <<capture, meter, kern, enh, dev>>

\* engine.transcribe has returned: so does the handler
transcribe_return(c) ==
    /\ asr.calls[c].pc = "held" /\ asr.calls[c].cmd = "transcribe"
    /\ asr.calls[c].run.pc = "returned"
    /\ asr' = return(asr, c, asr.calls[c].run.val, FALSE, FALSE)
    /\ UNCHANGED <<capture, meter, kern, enh, dev>>

\* transcription_unload_model under the lock
unload_body(c) ==
    /\ asr.calls[c].pc = "held" /\ asr.calls[c].cmd = "unload"
    /\ asr' = [return(unload(asr), c, OkText(<<>>), FALSE, FALSE) EXCEPT !.live = FALSE]
    /\ UNCHANGED <<capture, meter, kern, enh, dev>>

\* transcription_model_status under the lock: lock.is_some(), and is_cached
status_body(c) ==
    /\ asr.calls[c].pc = "held" /\ asr.calls[c].cmd = "status"
    /\ asr' = return(asr, c, OkText(<<>>), asr.engine # NoEngine, FALSE)
    /\ UNCHANGED <<capture, meter, kern, enh, dev>>

\* MoonshineEngine::load
engine_load ==
    /\ asr.calls[1].run.pc \in {"idle", "returned"}
    /\ \E config \in Configs \cup OddConfigs \cup {NoEngine} :
         asr' = [asr EXCEPT !.engine = config, !.calls[1].run = NoRun]
    /\ UNCHANGED <<capture, meter, kern, enh, dev>>

\* engine.transcribe(&audio, language), called on an engine the caller owns
engine_transcribe ==
    /\ asr.engine # NoEngine
    /\ asr.calls[1].run.pc \in {"idle", "returned"}
    /\ \E audio \in Audios : asr' = [asr EXCEPT !.calls[1].run = transcribe_enter(audio)]
    /\ UNCHANGED <<capture, meter, kern, enh, dev>>

\* self.encoder_session.run
transcribe_encoder(c) ==
    /\ asr.calls[c].run.pc = "encoder"
    /\ \E ok \in BOOLEAN :
         asr' = [asr EXCEPT !.calls[c].run = encoder_step(asr.engine, @, ok)]
    /\ UNCHANGED <<capture, meter, kern, enh, dev>>

\* self.decoder_session.run and the argmax
transcribe_decoder(c) ==
    /\ asr.calls[c].run.pc = "decoder"
    /\ \E ok \in BOOLEAN, next_token \in TokenIds :
         /\ ok \/ next_token = 0
         /\ asr' = [asr EXCEPT !.calls[c].run = decoder_step(asr.engine, @, ok, next_token)]
    /\ UNCHANGED <<capture, meter, kern, enh, dev>>

\* self.tokenizer.decode
transcribe_tokenizer(c) ==
    /\ asr.calls[c].run.pc = "tokenizer"
    /\ \E ok \in BOOLEAN, text \in DecodedTexts :
         /\ ok \/ text = <<>>
         /\ asr' = [asr EXCEPT !.calls[c].run = tokenizer_step(@, ok, text)]
    /\ UNCHANGED <<capture, meter, kern, enh, dev>>


---------------------------------------------------------------------------
(* The post-processor (enhance.rs).  A WAV file is what read_wav_header      *)
(* finds in it: whether it has 44 bytes and the RIFF/WAVE tags, the header   *)
(* fields, whether a chunk tagged data exists, the size that chunk declares, *)
(* and the samples present after it, as runs [v, n] of equal samples.        *)

\* WAVE_FORMAT_FLOAT
WAVE_FORMAT_FLOAT == 3
\* the sample rate denoise_wav requires
RnnoiseRate == 48000
\* the length of the fades denoise_wav applies, in ms
FadeMs == 50
\* the peak denoise_wav normalizes to, in thousandths
TargetPeak == 891

NoInfo ==
    [channels |-> 0, sample_rate |-> 0, bits_per_sample |-> 0, is_float |-> FALSE,
     data_size |-> Big(0)]

NoWav ==
    [exists |-> FALSE, header |-> "short", format_tag |-> 0, channels |-> 0,
     sample_rate |-> 0, bits_per_sample |-> 0, has_data |-> FALSE,
     data_size |-> Big(0), data |-> <<>>]

RECURSIVE RunsLen(_)
\* the number of samples of a run sequence
RunsLen(runs) == IF runs = <<>> THEN 0 ELSE runs[1].n + RunsLen(Tail(runs))

RECURSIVE Take(_, _)
\* the first k samples of a run sequence
Take(runs, k) ==
    IF k <= 0 \/ runs = <<>> THEN <<>>
    ELSE IF runs[1].n >= k THEN <<[v |-> runs[1].v, n |-> k]>>
    ELSE <<runs[1]>> \o Take(Tail(runs), k - runs[1].n)

RECURSIVE Expand(_)
\* the samples of a run sequence, one by one
Expand(runs) ==
    IF runs = <<>> THEN <<>>
    ELSE [k \in 1..runs[1].n |-> runs[1].v] \o Expand(Tail(runs))

\* Vec<f32> as runs of one sample
Pack(samples) == [k \in 1..Len(samples) |-> [v |-> samples[k], n |-> 1]]

\* a / k for a u32 a and k = 2 or 4
BigQuot(a, k) == a[1] * (Radix \div k) + (a[2] \div k)

ReadErr == [tag |-> "Err", samples |-> <<>>, info |-> NoInfo]
ReadPanic == [tag |-> "Panic", samples |-> <<>>, info |-> NoInfo]

\* read_wav_header
read_wav_header(f) ==
    IF f.header # "ok" \/ ~ f.has_data THEN ReadErr
    ELSE [tag |-> "Ok", samples |-> <<>>,
          info |-> [channels |-> f.channels, sample_rate |-> f.sample_rate,
                    bits_per_sample |-> f.bits_per_sample,
                    is_float |-> f.format_tag = WAVE_FORMAT_FLOAT,
                    data_size |-> f.data_size]]

\* read_exact of data_size bytes, then chunks_exact(width): the samples, or an
\* error when the file holds fewer bytes than declared
read_samples(f, info, width) ==
    IF ~ BigLeq(info.data_size, BigMul(RunsLen(f.data), width)) THEN ReadErr
    ELSE [tag |-> "Ok", samples |-> Take(f.data, BigQuot(info.data_size, width)),
          info |-> info]

\* read_wav_f32
read_wav_f32(f) ==
    IF ~ f.exists THEN ReadErr
    ELSE LET h == read_wav_header(f)
         IN  IF h.tag # "Ok" THEN h
             ELSE IF h.info.bits_per_sample \div 8 = 0 THEN ReadPanic
             ELSE IF h.info.is_float /\ h.info.bits_per_sample = 32
                  THEN read_samples(f, h.info, 4)
             ELSE IF ~ h.info.is_float /\ h.info.bits_per_sample = 16
                  THEN LET r == read_samples(f, h.info, 2)
                       IN  [r EXCEPT !.samples =
                               [k \in 1..Len(@) |-> [@[k] EXCEPT !.v = i16_to_f32(@)]]]
             ELSE ReadErr

\* write_wav_f32 up to the header: data_size = (samples.len() * 4) as u32
written_data_size(samples) ==
    LET b == BigMul(RunsLen(samples), 4)
    IN  <<b[1] % Radix, b[2]>>

\* write_wav_f32: the file it leaves.  o is "create_err", "write_err" (the header or
\* a sample cannot be written; torn says whether the header got through), or success
\* in a build with overflow checks ("checked") or without ("wrapping")
write_wav_f32(old, samples, info, o, torn) ==
    LET data_size == written_data_size(samples)
        created == [NoWav EXCEPT !.exists = TRUE]
        full == [created EXCEPT !.header = "ok", !.format_tag = WAVE_FORMAT_FLOAT,
                                !.channels = info.channels,
                                !.sample_rate = info.sample_rate,
                                !.bits_per_sample = 32, !.has_data = TRUE,
                                !.data_size = data_size, !.data = samples]
    IN  IF o = "create_err" THEN [tag |-> "Err", f |-> old]
        ELSE IF o = "checked" /\ AddU32Overflows(Big(RiffExtra), data_size)
        THEN [tag |-> "Panic", f |-> created]
        ELSE IF o = "write_err"
        THEN [tag |-> "Err", f |-> IF torn THEN created ELSE [full EXCEPT !.data = <<>>]]
        ELSE [tag |-> "Ok", f |-> full]

\* x * num / den
FScale(x, num, den) ==
    IF x.k = "fin" THEN Fin((x.v * num) \div den)
    ELSE IF num = 0 THEN NaN ELSE x

\* f32::abs
FAbs(x) == IF x.k = "fin" /\ x.v < 0 THEN Fin(0 - x.v) ELSE x

RECURSIVE FSum(_)
\* frame.iter().sum()
FSum(frame) == IF frame = <<>> THEN Fin(0) ELSE FAdd(frame[1], FSum(Tail(frame)))

\* stereo_to_mono, for channels > 0: chunks_exact drops what is left after the last
\* whole frame
stereo_to_mono(samples, channels) ==
    IF channels = 1 THEN samples
    ELSE [k \in 1..(Len(samples) \div channels) |->
            FScale(FSum(SubSeq(samples, (k - 1) * channels + 1, k * channels)), 1, channels)]

\* mono_to_multichannel
mono_to_multichannel(mono, channels) ==
    IF channels = 1 THEN mono
    ELSE [k \in 1..(Len(mono) * channels) |-> mono[((k - 1) \div channels) + 1]]

\* denoise_mono; clean says what process_frame gives: "silence", or "same" for the
\* frame it was given
denoise_mono(mono, intensity, clean) ==
    LET mix == IF intensity < 0 THEN 0 ELSE IF intensity > Scale THEN Scale ELSE intensity
    IN  IF mix = 0 THEN mono
        ELSE [k \in 1..Len(mono) |->
                FAdd(FScale(IF clean = "same" THEN mono[k] ELSE Fin(0), mix, Scale),
                     FScale(mono[k], Scale - mix, Scale))]

RECURSIVE MaxAbs(_)
\* the loop of peak_normalize over max_abs
MaxAbs(samples) ==
    IF samples = <<>> THEN Fin(0)
    ELSE LET m == MaxAbs(SubSeq(samples, 1, Len(samples) - 1))
             a == FAbs(samples[Len(samples)])
         IN  IF FGt(a, m) THEN a ELSE m

\* peak_normalize
peak_normalize(samples, target_peak) ==
    LET max_abs == MaxAbs(samples)
    IN  IF max_abs.k # "fin" THEN [k \in 1..Len(samples) |-> FScale(samples[k], 0, 1)]
        ELSE IF max_abs.v < 1 \/ (max_abs.v - target_peak < 10 /\ target_peak - max_abs.v < 10)
        THEN samples
        ELSE [k \in 1..Len(samples) |-> FScale(samples[k], target_peak, max_abs.v)]

\* 0.5 * (1.0 - cos(pi * i / n)), in thousandths, for the fractions i / n in halves,
\* thirds and quarters
fade_gain(i, n) ==
    IF i = 0 THEN 0
    ELSE IF 3 * i = n THEN 250
    ELSE IF 2 * i = n THEN 500
    ELSE IF 4 * i = n THEN 146
    ELSE IF 4 * i = 3 * n THEN 854
    ELSE 750

\* a fade length that is not capped by the signal
fade_samples_uncapped(len, sample_rate, fade_ms) ==
    (sample_rate * fade_ms) \div 1000

\* fade_samples; the product is taken in usize, 64 bits wide, from two u32
fade_samples(len, sample_rate, fade_ms) ==
    LET wanted == (sample_rate * fade_ms) \div 1000
    IN  IF wanted < len \div 2 THEN wanted ELSE len \div 2

\* the indices samples[i] of the fade-in loop, counted from 0
fade_in_indices(n) == {i : i \in 0..n - 1}

\* the indices samples[len - 1 - i] of the fade-out loop, counted from 0
fade_out_indices(len, n) == {len - 1 - i : i \in 0..n - 1}

\* apply_fade: the fade in, then the fade out
apply_fade(samples, sample_rate, fade_ms) ==
    LET n == fade_samples(Len(samples), sample_rate, fade_ms)
        faded_in == [k \in 1..Len(samples) |->
                        IF k - 1 \in fade_in_indices(n)
                        THEN FScale(samples[k], fade_gain(k - 1, n), Scale)
                        ELSE samples[k]]
    IN  [k \in 1..Len(samples) |->
            IF k - 1 \in fade_out_indices(Len(samples), n)
            THEN FScale(faded_in[k], fade_gain(Len(samples) - k, n), Scale)
            ELSE faded_in[k]]

\* denoise_wav up to write_wav_f32: what it read, the samples before the fades, and
\* the samples it is about to write
denoise_wav(input, intensity, normalize, clean) ==
    LET r == read_wav_f32(input)
        none == [tag |-> r.tag, info |-> r.info, read |-> <<>>, mixed |-> <<>>, out |-> <<>>]
    IN  IF r.tag # "Ok" THEN none
        ELSE IF r.info.sample_rate # RnnoiseRate THEN [none EXCEPT !.tag = "Err"]
        ELSE IF r.info.channels = 0 THEN [none EXCEPT !.tag = "Panic"]
        ELSE LET samples == Expand(r.samples)
                 mono == stereo_to_mono(samples, r.info.channels)
                 denoised_mono == denoise_mono(mono, intensity, clean)
                 upmixed == mono_to_multichannel(denoised_mono, r.info.channels)
                 mixed == IF normalize THEN peak_normalize(upmixed, TargetPeak)
                          ELSE upmixed
             IN  [none EXCEPT !.read = samples, !.mixed = mixed,
                              !.out = apply_fade(mixed, r.info.sample_rate, FadeMs)]

\* the sample sequences of length n over the values vals
SeqsOf(vals, n) == UNION {[1..k -> vals] : k \in 0..n}

\* a file as write_wav_f32 or the capture sink leaves it: 32-bit float samples
FloatWav(channels, sample_rate, samples) ==
    [NoWav EXCEPT !.exists = TRUE, !.header = "ok", !.format_tag = WAVE_FORMAT_FLOAT,
                  !.channels = channels, !.sample_rate = sample_rate,
                  !.bits_per_sample = 32, !.has_data = TRUE,
                  !.data_size = BigMul(Len(samples), 4), !.data = Pack(samples)]

\* files that are not what denoise_wav expects: missing, not RIFF/WAVE, without a
\* data chunk, shorter than declared, 24-bit, with a bits field of 0, without
\* channels, 16-bit integer, recorded at 44.1 kHz
OddWavs ==
    LET base == FloatWav(1, RnnoiseRate, <<Fin(500), Fin(0 - 250)>>)
    IN  { NoWav,
          [base EXCEPT !.header = "not_wav"],
          [base EXCEPT !.has_data = FALSE],
          [base EXCEPT !.data_size = Big(12)],
          [base EXCEPT !.bits_per_sample = 24],
          [base EXCEPT !.bits_per_sample = 0, !.sample_rate = 44100],
          [base EXCEPT !.channels = 0],
          [base EXCEPT !.format_tag = 1, !.bits_per_sample = 16, !.data_size = Big(4),
                       !.data = <<[v |-> 16384, n |-> 1], [v |-> 0 - 32768, n |-> 1]>>],
          [base EXCEPT !.sample_rate = 44100] }

\* the files a caller gives to denoise_wav
WavInputs ==
    {FloatWav(ch, RnnoiseRate, samples) :
        ch \in {1, 2}, samples \in SeqsOf({Fin(500), Fin(0 - 250)}, MaxSamples)}
    \cup OddWavs

\* the files the front end gives to enhance_audio
EnhInputs ==
    {NoWav, FloatWav(1, RnnoiseRate, <<Fin(500)>>), FloatWav(1, 44100, <<Fin(500)>>)}

\* the buffers a caller gives to write_wav_f32: short ones, and one of 2^30 samples
WavBuffers ==
    {<<>>, <<[v |-> Fin(500), n |-> 2]>>,
     <<[v |-> Fin(500), n |-> 1], [v |-> Fin(0), n |-> 2 * BigFrames - 1]>>}

Jobs == 1..MaxJobs

\* where enhance_audio and capture sessions put their files: the temp directory, one
\* name per timestamp
Paths == 0..MaxClock

NoWork == [tag |-> "none", info |-> NoInfo, read |-> <<>>, mixed |-> <<>>, out |-> <<>>]

NoJob ==
    [pc |-> "none", input |-> NoWav, intensity |-> 0, normalize |-> FALSE,
     output_path |-> NoPath, work |-> NoWork]

NoEnhRet ==
    [op |-> "none", tag |-> "none", path |-> NoPath, input |-> NoWav, intensity |-> 0,
     normalize |-> FALSE, work |-> NoWork, samples |-> <<>>, info |-> NoInfo]

NoEnh == [files |-> [p \in Paths |-> NoWav], jobs |-> [c \in Jobs |-> NoJob], ret |-> NoEnhRet]

\* denoise_wav is entered with these arguments
denoising(input, intensity, normalize, output_path) ==
    [NoJob EXCEPT !.pc = "denoise", !.input = input, !.intensity = intensity,
                  !.normalize = normalize, !.output_path = output_path]

\* denoise_wav returns
denoise_returns(e, c, tag, work) ==
    [e EXCEPT !.jobs[c] = [NoJob EXCEPT !.pc = "done", !.output_path = e.jobs[c].output_path],
              !.ret = [NoEnhRet EXCEPT !.op = "denoise", !.tag = tag,
                                       !.path = e.jobs[c].output_path,
                                       !.input = e.jobs[c].input,
                                       !.intensity = e.jobs[c].intensity,
                                       !.normalize = e.jobs[c].normalize,
                                       !.work = work]]

\* enhance_audio: the output path from the clock, then denoise_wav on a blocking worker
enhance_audio(c) ==
    /\ enh.jobs[c].pc = "none"
    /\ \A b \in Jobs : b < c => enh.jobs[b].pc # "none"
    /\ \E input \in EnhInputs, intensity \in {0, Scale}, normalize \in BOOLEAN,
          timestamp \in 0..MaxClock :
         enh' = [enh EXCEPT !.jobs[c] = denoising(input, intensity, normalize, timestamp)]
    /\ UNCHANGED <<capture, asr, meter, kern, dev>>

\* the one file the direct callers write and read
WavPaths == {p \in Paths : \A q \in Paths : p <= q}

\* denoise_wav(input_path, output_path, intensity, normalize), called directly
wav_denoise ==
    /\ enh.jobs[1].pc \in {"none", "done"}
    /\ \E input \in WavInputs, intensity \in {0, Scale}, normalize \in BOOLEAN,
          output_path \in WavPaths :
         enh' = [enh EXCEPT !.jobs[1] = denoising(input, intensity, normalize, output_path),
                            !.ret = NoEnhRet]
    /\ UNCHANGED <<capture, asr, meter, kern, dev>>

\* denoise_wav from read_wav_f32 to apply_fade
denoise_compute(c) ==
    /\ enh.jobs[c].pc = "denoise"
    /\ \E clean \in {"silence", "same"} :
         LET j == enh.jobs[c]
             work == denoise_wav(j.input, j.intensity, j.normalize, clean)
         IN  /\ j.intensity = 0 => clean = "same"
             /\ enh' = IF work.tag = "Ok"
                       THEN [enh EXCEPT !.jobs[c].pc = "write", !.jobs[c].work = work]
                       ELSE denoise_returns(enh, c, work.tag, work)
    /\ UNCHANGED <<capture, asr, meter, kern, dev>>

\* denoise_wav: write_wav_f32(output_path, &output_samples, &info)
denoise_write(c) ==
    /\ enh.jobs[c].pc = "write"
    /\ \E o \in {"create_err", "write_err", "checked", "wrapping"}, torn \in BOOLEAN :
         LET j == enh.jobs[c]
             w == write_wav_f32(enh.files[j.output_path], Pack(j.work.out), j.work.info,
                                o, torn)
         IN  /\ o = "write_err" \/ ~ torn
             /\ enh' = [denoise_returns(enh, c, w.tag, j.work)
                           EXCEPT !.files[j.output_path] = w.f]
    /\ UNCHANGED <<capture, asr, meter, kern, dev>>

\* write_wav_f32(path, &samples, &info), called directly
wav_write ==
    /\ enh.jobs[1].pc \in {"none", "done"}
    /\ \E path \in WavPaths, samples \in WavBuffers, channels \in {1, 2},
          o \in {"create_err", "write_err", "checked", "wrapping"}, torn \in BOOLEAN :
         LET info == [NoInfo EXCEPT !.channels = channels, !.sample_rate = RnnoiseRate]
             w == write_wav_f32(enh.files[path], samples, info, o, torn)
         IN  /\ o = "write_err" \/ ~ torn
             /\ enh' = [enh EXCEPT !.files[path] = w.f,
                                   !.ret = [NoEnhRet EXCEPT !.op = "write", !.tag = w.tag,
                                                            !.path = path,
                                                            !.samples = samples,
                                                            !.info = info]]
    /\ UNCHANGED <<capture, asr, meter, kern, dev>>

\* read_wav_f32(path), called directly
wav_read ==
    /\ enh.jobs[1].pc \in {"none", "done"}
    /\ \E path \in WavPaths :
         LET r == read_wav_f32(enh.files[path])
         IN  enh' = [enh EXCEPT !.ret = [NoEnhRet EXCEPT !.op = "read", !.tag = r.tag,
                                                         !.path = path,
                                                         !.samples = r.samples,
                                                         !.info = r.info]]
    /\ UNCHANGED <<capture, asr, meter, kern, dev>>

---------------------------------------------------------------------------
(* LoopbackSession (wasapi.rs:60-203) and what it holds of the device: the    *)
(* mix format memory, the initialized audio client, the buffer event.  The   *)
(* session is used the way run_capture uses it.                              *)

\* const EVENT_WAIT_TIMEOUT_MS (wasapi.rs:18)
EVENT_WAIT_TIMEOUT_MS == 100

NoDev ==
    [pc |-> "none",             \* none, create, start, loop, drain, finalize, exited
     cause |-> "none",          \* how open ended on this device, one of OpenOutcomes
     inits |-> <<>>,            \* the Initialize calls made: "event", "polling"
     mode |-> "none",           \* the mode of the Initialize call that succeeded
     event_set |-> FALSE,       \* the device signals buffer_event (SetEventHandle)
     sopen |-> FALSE,           \* the LoopbackSession exists
     started |-> FALSE,         \* session.started
     allocs |-> 0,              \* mix formats obtained with GetMixFormat
     frees |-> 0,               \* CoTaskMemFree calls on the mix format
     starts |-> 0,              \* successful IAudioClient::Start calls
     stops |-> 0,               \* IAudioClient::Stop calls
     waits |-> 0,               \* wait_for_buffer calls
     wait |-> "none",           \* how the last wait_for_buffer ended: signalled, timeout
     blocked_ms |-> 0,          \* the longest it may have blocked
     slept_ms |-> 0,            \* what the loop slept after it, before the drain
     result |-> NoResult]       \* what run_capture returned

\* LoopbackSession::open that never falls back: a rejected event-driven
\* initialization is the error of open
open_event_only(o) ==
    LET failed == [NoDev EXCEPT !.pc = "exited", !.cause = o, !.result = Err("AudioCapture")]
        format == [failed EXCEPT !.allocs = 1]
    IN  IF o \in {"enumerator_err", "endpoint_err", "activate_err", "mixformat_err"}
        THEN failed
        ELSE IF o = "event_err" THEN format
        ELSE IF o \in {"log_panic", "init_err", "ok_polling"}
        THEN [format EXCEPT !.inits = <<"event">>]
        ELSE IF o \in {"sethandle_err", "service_err"}
        THEN [format EXCEPT !.inits = <<"event">>, !.mode = "event"]
        ELSE [format EXCEPT !.inits = <<"event">>, !.mode = "event", !.event_set = TRUE,
                            !.pc = "create", !.sopen = TRUE, !.result = NoResult]

\* LoopbackSession::open, call by call; o names the call that fails, if any: the
\* `?` of a failing call returns at once, with whatever was obtained before it
open(o) ==
    LET failed == [NoDev EXCEPT !.pc = "exited", !.cause = o, !.result = Err("AudioCapture")]
        \* GetMixFormat succeeded: pwfx points to memory of the device
        format == [failed EXCEPT !.allocs = 1]
        \* Initialize with EVENTCALLBACK was called
        event == [format EXCEPT !.inits = <<"event">>]
        \* it was rejected, the rejection was logged, Initialize without it was called
        polling == [format EXCEPT !.inits = <<"event", "polling">>]
    IN  IF o \in {"enumerator_err", "endpoint_err", "activate_err", "mixformat_err"}
        THEN failed
        ELSE IF o = "event_err" THEN format
        ELSE IF o = "log_panic" THEN [event EXCEPT !.result = Panicked]
        ELSE IF o = "init_err" THEN polling
        ELSE IF o = "sethandle_err" THEN [event EXCEPT !.mode = "event"]
        ELSE IF o = "service_err"
        THEN [event EXCEPT !.mode = "event", !.event_set = TRUE]
        ELSE IF o = "ok_polling"
        THEN [polling EXCEPT !.mode = "polling", !.pc = "create", !.sopen = TRUE,
                             !.result = NoResult]
        ELSE [event EXCEPT !.mode = "event", !.event_set = TRUE, !.pc = "create",
                           !.sopen = TRUE, !.result = NoResult]

\* Drop for LoopbackSession: Stop if started, CoTaskMemFree(format_ptr)
drop_session(d) ==
    [d EXCEPT !.sopen = FALSE, !.stops = IF d.started THEN @ + 1 ELSE @, !.frees = @ + 1]

\* run_capture returns r with the session alive: the session is dropped on the way out
returns_dropping(d, r) == [drop_session(d) EXCEPT !.pc = "exited", !.result = r]

\* session.start()
start_session(d, ok) ==
    IF ok THEN [d EXCEPT !.pc = "loop", !.started = TRUE, !.starts = @ + 1]
    ELSE returns_dropping(d, Err("AudioCapture"))

\* session.wait_for_buffer(), then straight to drain_packets: WaitForSingleObject on
\* buffer_event with the timeout, whatever the mode; signalled tells that the device
\* set the event before the timeout
wait_for_buffer(d, signalled) ==
    [d EXCEPT !.pc = "drain", !.waits = @ + 1,
              !.wait = IF signalled THEN "signalled" ELSE "timeout",
              !.blocked_ms = EVENT_WAIT_TIMEOUT_MS,
              !.slept_ms = 0]

\* LoopbackSession::open on the worker thread
session_open ==
    /\ dev.pc = "none"
    /\ \E o \in OpenOutcomes : dev' = open(o)
    /\ UNCHANGED <<capture, asr, meter, kern, enh>>

\* AudioWavWriter::create(output_path, session.format)?
session_create ==
    /\ dev.pc = "create"
    /\ \E ok \in BOOLEAN :
         dev' = IF ok THEN [dev EXCEPT !.pc = "start"]
                ELSE returns_dropping(dev, Err("WavEncode"))
    /\ UNCHANGED <<capture, asr, meter, kern, enh>>

\* session.start()?
session_start ==
    /\ dev.pc = "start"
    /\ \E ok \in BOOLEAN : dev' = start_session(dev, ok)
    /\ UNCHANGED <<capture, asr, meter, kern, enh>>

\* capture_loop: the stop flag is not set; session.wait_for_buffer()
session_wait ==
    /\ dev.pc = "loop"
    /\ dev.waits < MaxWaits
    /\ \E signalled \in BOOLEAN :
         /\ signalled => dev.event_set
         /\ dev' = wait_for_buffer(dev, signalled)
    /\ UNCHANGED <<capture, asr, meter, kern, enh>>

\* drain_packets(session, writer)? of a loop iteration
session_drain ==
    /\ dev.pc = "drain"
    /\ \E ok \in BOOLEAN :
         dev' = IF ok THEN [dev EXCEPT !.pc = "loop"]
                ELSE returns_dropping(dev, Err("AudioCapture"))
    /\ UNCHANGED <<capture, asr, meter, kern, enh>>

\* capture_loop: the stop flag is set; the final drain, then drop(session)
session_stop ==
    /\ dev.pc = "loop"
    /\ \E ok \in BOOLEAN :
         dev' = IF ok THEN [drop_session(dev) EXCEPT !.pc = "finalize"]
                ELSE returns_dropping(dev, Err("WavEncode"))
    /\ UNCHANGED <<capture, asr, meter, kern, enh>>

\* writer.finalize()? and Ok(output_path)
session_finalize ==
    /\ dev.pc = "finalize"
    /\ \E ok \in BOOLEAN :
         dev' = [dev EXCEPT !.pc = "exited",
                            !.result = IF ok THEN OkPath(0) ELSE Err("WavEncode")]
    /\ UNCHANGED <<capture, asr, meter, kern, enh>>

---------------------------------------------------------------------------
(* read_wav_header (enhance.rs:29-80), byte offset by byte offset: the file  *)
(* is its 12-byte RIFF header followed by chunks, each an 8-byte chunk       *)
(* header (tag, declared size) and its payload, cut at the file's length.    *)
(* The offsets stay far below 2^32: the u32 size and the u64 offset of the   *)
(* code cannot wrap, since a seek past the end is followed by a failed read. *)

\* the bytes header[0..12]: "RIFF", the RIFF size, "WAVE"
RiffLen == 12
\* the bytes of the first read_exact
FirstRead == 44
\* the bytes of a chunk header: tag and size
ChunkHeaderLen == 8

ChunkTags == {"fmt ", "LIST", "data"}
ChunkSizes == {0, 16}
Chunks == [tag : ChunkTags, size : ChunkSizes]

\* the offset of the header of chunk k when every chunk before it has its
\* declared size
RECURSIVE ChunkOffset(_, _)
ChunkOffset(cs, k) ==
    IF k = 1 THEN RiffLen
    ELSE ChunkOffset(cs, k - 1) + ChunkHeaderLen + cs[k - 1].size

\* what a file can lose at its end
Truncations == {0, 4, 20}

\* files: with or without the RIFF/WAVE magic, some chunks, cut somewhere
ScanFiles ==
    {[magic |-> g, chunks |-> cs,
      flen |-> IF ChunkOffset(cs, Len(cs) + 1) < t THEN 0
               ELSE ChunkOffset(cs, Len(cs) + 1) - t] :
        g \in BOOLEAN, cs \in SeqsOf(Chunks, MaxChunks), t \in Truncations}

\* the chunk whose header starts at offset pos
ChunkAt(f, pos) ==
    LET k == CHOOSE k \in 1..Len(f.chunks) : ChunkOffset(f.chunks, k) = pos
    IN  f.chunks[k]

\* read_wav_header up to the loop: 44 bytes are read, the magic is checked, the
\* reader is put at offset 12
scan_start(f) ==
    LET call == [fn |-> "read_wav_header", arg |-> f, out |-> "none",
                 pos |-> 0, data_offset |-> 0, data_size |-> 0, steps |-> 0]
    IN  IF f.flen < FirstRead THEN [call EXCEPT !.out = "Err", !.pos = f.flen]
        ELSE IF ~ f.magic THEN [call EXCEPT !.out = "Err", !.pos = FirstRead]
        ELSE [call EXCEPT !.pos = RiffLen, !.data_offset = RiffLen]

\* an iteration that counts the payload of a skipped chunk but not its header
scan_chunk_payload_only(k) ==
    IF k.arg.flen < k.pos + ChunkHeaderLen THEN [k EXCEPT !.out = "Err"]
    ELSE LET c == ChunkAt(k.arg, k.pos)
         IN  IF c.tag = "data"
             THEN [k EXCEPT !.out = "Ok", !.pos = @ + ChunkHeaderLen,
                            !.data_offset = @ + ChunkHeaderLen, !.data_size = c.size,
                            !.steps = @ + 1]
             ELSE [k EXCEPT !.pos = @ + ChunkHeaderLen + c.size,
                            !.data_offset = @ + c.size, !.steps = @ + 1]

\* one iteration of the loop: read_exact of the chunk header fails at the end of
\* the file; a data chunk is returned; any other chunk is skipped by its size
scan_chunk(k) ==
    IF k.arg.flen < k.pos + ChunkHeaderLen THEN [k EXCEPT !.out = "Err"]
    ELSE LET c == ChunkAt(k.arg, k.pos)
         IN  IF c.tag = "data"
             THEN [k EXCEPT !.out = "Ok", !.pos = @ + ChunkHeaderLen,
                            !.data_offset = @ + ChunkHeaderLen, !.data_size = c.size,
                            !.steps = @ + 1]
             ELSE [k EXCEPT !.pos = @ + ChunkHeaderLen + c.size,
                            !.data_offset = @ + ChunkHeaderLen + c.size,
                            !.steps = @ + 1]

\* a caller gives a file to read_wav_header
scan_call ==
    /\ kern = NoKern
    /\ \E f \in ScanFiles : kern' = scan_start(f)
    /\ UNCHANGED <<capture, asr, meter, enh, dev>>

\* the loop of read_wav_header runs once more
scan_loop ==
    /\ kern.fn = "read_wav_header"
    /\ kern.out = "none"
    /\ kern' = scan_chunk(kern)
    /\ UNCHANGED <<capture, asr, meter, enh, dev>>

\* the caller has the result
scan_return ==
    /\ kern.fn = "read_wav_header"
    /\ kern.out # "none"
    /\ kern' = NoKern
    /\ UNCHANGED <<capture, asr, meter, enh, dev>>

---------------------------------------------------------------------------
(* apply_fade (enhance.rs:262-280) called on its own.                        *)

\* signals of up to MaxFadeLen samples
FadeSignals == SeqsOf({Fin(Scale), Fin(0 - 500)}, MaxFadeLen)

\* sample rates: fades of 0, 1 and 2 samples, and the rate of the denoiser
FadeRates == {0, 20, 40, RnnoiseRate}

\* apply_fade(samples, sample_rate, fade_ms) runs: the fade length it computed,
\* the indices its two loops touched, the samples as it leaves them
fade_call ==
    /\ kern = NoKern
    /\ \E samples \in FadeSignals, sample_rate \in FadeRates, fade_ms \in {0, FadeMs} :
         LET n == fade_samples(Len(samples), sample_rate, fade_ms)
         IN  kern' = [fn |-> "apply_fade", arg |-> samples, out |-> "done",
                      sample_rate |-> sample_rate, fade_ms |-> fade_ms,
                      fade_samples |-> n,
                      faded_in |-> fade_in_indices(n),
                      faded_out |-> fade_out_indices(Len(samples), n),
                      samples |-> apply_fade(samples, sample_rate, fade_ms)]
    /\ UNCHANGED <<capture, asr, meter, enh, dev>>

\* the caller has the faded signal
fade_return ==
    /\ kern.fn = "apply_fade"
    /\ kern' = NoKern
    /\ UNCHANGED <<capture, asr, meter, enh, dev>>

Init ==
    /\ now = 0
    /\ gen = 0
    /\ capture_lock = 0
    /\ mutex = "free"
    /\ sess = [i \in Handles |-> NoSession]
    /\ npk = 0
    /\ ret = [op |-> "none", h |-> 0, val |-> NoResult]
    /\ asr = NoAsr
    /\ meter = NoMeter
    /\ kern = NoKern
    /\ enh = NoEnh
    /\ dev = NoDev

Next ==
    \/ start_system_audio_capture
    \/ stop_system_audio_capture
    \/ stop_returns
    \/ \E i \in Handles : Worker(i)

Spec == Init /\ [][Next]_vars

\* the capture commands together with the availability probe
SurfaceNext == Next \/ is_system_audio_available

SurfaceSpec == Init /\ [][SurfaceNext]_vars

---------------------------------------------------------------------------
(* A client that holds a SystemAudioHandle itself (capture.rs:25-64): it    *)
(* starts a handle, calls stop any number of times and lets it drop.        *)

\* SystemAudioHandle::start(output_path, app)
handle_start ==
    /\ gen < MaxSessions
    /\ \A i \in Handles : sess[i].h \in {"none", "dropped"}
    /\ \E p \in 0..MaxClock, spawned \in BOOLEAN :
         IF spawned
         THEN /\ gen' = gen + 1
              /\ sess' = [sess EXCEPT ![gen + 1] = start(p)]
              /\ ret' = [op |-> "handle_start", h |-> gen + 1, val |-> OkMsg("")]
         ELSE /\ ret' = [op |-> "handle_start", h |-> 0, val |-> Err("AudioCapture")]
              /\ UNCHANGED <<gen, sess>>
    /\ UNCHANGED <<now, capture_lock, mutex, npk, aux>>

\* handle.stop() up to the join, or to its return when there is nothing to join
handle_stop(i) ==
    /\ sess[i].h = "live"
    /\ sess' = [sess EXCEPT ![i] = stop_enter(@)]
    /\ IF sess[i].join_handle
       THEN UNCHANGED ret
       ELSE ret' = [op |-> "handle_stop", h |-> i, val |-> Err("CaptureAlreadyStopped")]
    /\ UNCHANGED <<now, gen, capture_lock, mutex, npk, aux>>

\* handle.stop() from the join on
handle_stop_returns(i) ==
    /\ sess[i].h = "stopping"
    /\ sess[i].pc = "exited"
    /\ ret' = [op |-> "handle_stop", h |-> i, val |-> stop_value(sess[i])]
    /\ sess' = [sess EXCEPT ![i] = stop_exit(@)]
    /\ UNCHANGED <<now, gen, capture_lock, mutex, npk, aux>>

\* the handle goes out of scope: Drop up to the join
handle_drop(i) ==
    /\ sess[i].h = "live"
    /\ sess' = [sess EXCEPT ![i] = drop_enter(@)]
    /\ UNCHANGED <<now, gen, capture_lock, mutex, npk, ret, aux>>

\* Drop from the join on
handle_drop_returns(i) ==
    /\ sess[i].h = "dropping"
    /\ sess[i].pc = "exited"
    /\ sess' = [sess EXCEPT ![i] = drop_exit(@)]
    /\ UNCHANGED <<now, gen, capture_lock, mutex, npk, ret, aux>>

HandleNext ==
    \/ handle_start
    \/ \E i \in Handles : handle_stop(i)
    \/ \E i \in Handles : handle_stop_returns(i)
    \/ \E i \in Handles : handle_drop(i)
    \/ \E i \in Handles : handle_drop_returns(i)
    \/ \E i \in Handles : Worker(i)

HandleSpec == Init /\ [][HandleNext]_vars

---------------------------------------------------------------------------
(* A client that drives one AudioWavWriter itself (wav.rs:32-163), the way  *)
(* run_capture does: create, writes until one fails, finalize.              *)

\* frame counts of the write calls: short writes and very long ones
SinkFrames == {0, 1, BigFrames - 1, BigFrames}

\* AudioWavWriter::create(path, format)
sink_create ==
    /\ sess[1].pc = "none"
    /\ \E fmt \in Formats, ok \in BOOLEAN :
         sess' = [sess EXCEPT ![1] =
            IF ok
            THEN [@ EXCEPT !.pc = "sink", !.format = fmt, !.path = 0,
                           !.writer = create(fmt).w, !.file = create(fmt).f]
            ELSE [@ EXCEPT !.pc = "sink_closed"]]
    /\ UNCHANGED <<now, gen, capture_lock, mutex, npk, ret, aux>>

\* one write call and what the client does with its result
sink_write(s, silent, n, ok, t) ==
    IF ok
    THEN LET wf == IF silent THEN write_silence(s.writer, s.file, n)
                   ELSE write_raw(s.writer, s.file, n)
         IN  [s EXCEPT !.writer = wf.w, !.file = wf.f]
    ELSE [s EXCEPT !.pc = "sink_closed", !.file = write_failed(@, t),
                   !.writer = [@ EXCEPT !.open = FALSE]]

\* writer.write_silence(frame_count)
sink_write_silence ==
    /\ sess[1].pc = "sink"
    /\ Len(sess[1].file.runs) < MaxWrites
    /\ \E n \in SinkFrames, ok \in BOOLEAN, t \in BOOLEAN :
         sess' = [sess EXCEPT ![1] = sink_write(@, TRUE, n, ok, t)]
    /\ UNCHANGED <<now, gen, capture_lock, mutex, npk, ret, aux>>

\* writer.write_raw(ptr, frame_count)
sink_write_raw ==
    /\ sess[1].pc = "sink"
    /\ Len(sess[1].file.runs) < MaxWrites
    /\ \E n \in SinkFrames, ok \in BOOLEAN, t \in BOOLEAN :
         sess' = [sess EXCEPT ![1] = sink_write(@, FALSE, n, ok, t)]
    /\ UNCHANGED <<now, gen, capture_lock, mutex, npk, ret, aux>>

\* writer.finalize()
sink_finalize ==
    /\ sess[1].pc = "sink"
    /\ \E o \in {"io_err", "checked", "wrapping"} :
         sess' = [sess EXCEPT ![1] =
            [finalize_step(@, o) EXCEPT !.pc = "sink_closed"]]
    /\ UNCHANGED <<now, gen, capture_lock, mutex, npk, ret, aux>>

SinkNext == sink_create \/ sink_write_silence \/ sink_write_raw \/ sink_finalize

SinkSpec == Init /\ [][SinkNext]_vars

---------------------------------------------------------------------------
(* The capture loop seen from its level meter.                              *)

MeterNext == meter_start \/ meter_packet \/ meter_pass \/ meter_final

MeterSpec == Init /\ [][MeterNext]_vars

---------------------------------------------------------------------------
(* The transcription commands, called by the front end in any order and     *)
(* without waiting for one another.                                         *)

AsrNext ==
    \E c \in Calls :
        \/ transcription_load_model(c)
        \/ transcription_transcribe(c)
        \/ transcription_unload_model(c)
        \/ transcription_model_status(c)
        \/ asr_lock(c)
        \/ load_body(c)
        \/ transcribe_body(c)
        \/ transcribe_encoder(c)
        \/ transcribe_decoder(c)
        \/ transcribe_tokenizer(c)
        \/ transcribe_return(c)
        \/ unload_body(c)
        \/ status_body(c)

AsrSpec == Init /\ [][AsrNext]_vars

---------------------------------------------------------------------------
(* A caller that owns a MoonshineEngine and transcribes with it.            *)

EngineNext ==
    \/ engine_load
    \/ engine_transcribe
    \/ transcribe_encoder(1)
    \/ transcribe_decoder(1)
    \/ transcribe_tokenizer(1)

EngineSpec == Init /\ [][EngineNext]_vars

---------------------------------------------------------------------------
(* The enhance_audio command, called by the front end without waiting for   *)
(* the call before.                                                         *)

EnhanceNext == \E c \in Jobs : enhance_audio(c) \/ denoise_compute(c) \/ denoise_write(c)

EnhanceSpec == Init /\ [][EnhanceNext]_vars

---------------------------------------------------------------------------
(* A caller of denoise_wav, write_wav_f32 and read_wav_f32.                 *)

WavNext == wav_denoise \/ denoise_compute(1) \/ denoise_write(1) \/ wav_write \/ wav_read

WavSpec == Init /\ [][WavNext]_vars

---------------------------------------------------------------------------
(* One loopback session from open to drop, on a worker like run_capture.    *)

SessionNext ==
    \/ session_open \/ session_create \/ session_start \/ session_wait
    \/ session_drain \/ session_stop \/ session_finalize

SessionSpec == Init /\ [][SessionNext]_vars

---------------------------------------------------------------------------
(* Callers of read_wav_header; the loop, once entered, keeps running.       *)

ScanNext == scan_call \/ scan_loop \/ scan_return

ScanSpec == Init /\ [][ScanNext]_vars

ScanFairSpec == ScanSpec /\ WF_vars(scan_loop)

---------------------------------------------------------------------------
(* Callers of apply_fade.                                                   *)

FadeNext == fade_call \/ fade_return

FadeSpec == Init /\ [][FadeNext]_vars

---------------------------------------------------------------------------
(* A caller of the hallucination filter.                                    *)

TextNext == text_word \/ text_is_hallucination

TextSpec == Init /\ [][TextNext]_vars

---------------------------------------------------------------------------
(* Properties of the command surface.                                       *)

\* handles that exist
Existing == {i \in Handles : sess[i].h \notin {"none", "dropped"}}

\* worker threads that run
LiveWorkers == {i \in Handles : sess[i].pc \notin {"none", "exited"}}

\* the handle a stop call in progress is joining
Stopping == CHOOSE i \in Handles : sess[i].h = "stopping"

AtMostOneSession ==
    /\ Cardinality(Existing) <= 1
    /\ Cardinality(LiveWorkers) <= 1
    /\ capture_lock # 0 => Existing = {capture_lock}

\* C1: under every interleaving of start and stop commands at most one capture
\* session (handle, live worker) exists, and a start that finds the slot occupied
\* returns CaptureAlreadyRunning, spawns no worker and leaves the slot as it was.
C1_SingleSession ==
    /\ []AtMostOneSession
    /\ [][(capture_lock # 0 /\ start_system_audio_capture) =>
            /\ ret'.op = "start"
            /\ ret'.val = Err("CaptureAlreadyRunning")
            /\ UNCHANGED <<gen, capture_lock, sess>>]_vars

\* a start was refused while a worker was capturing
C1_Witness ==
    /\ ret.op = "start"
    /\ ret.val = Err("CaptureAlreadyRunning")
    /\ capture_lock # 0
    /\ sess[capture_lock].pc \in DrainPcs

\* stop with an empty slot: NoCaptureRunning and no change
StopOnEmptySlot ==
    (capture_lock = 0 /\ stop_system_audio_capture) =>
        /\ ret'.op = "stop"
        /\ ret'.val = Err("NoCaptureRunning")
        /\ UNCHANGED <<now, gen, capture_lock, mutex, sess, npk>>

\* stop with a session: the worker is stopped and the slot is left empty and free
StopEmptiesSlot ==
    /\ (capture_lock # 0 /\ stop_system_audio_capture) =>
          /\ capture_lock' = 0
          /\ sess'[capture_lock].stop_flag
    /\ stop_returns =>
          /\ sess[Stopping].pc = "exited"
          /\ sess[Stopping].stop_flag
          /\ ret'.op = "stop"
          /\ capture_lock' = 0
          /\ mutex' = "free"
    /\ (capture_lock = 0 /\ start_system_audio_capture) =>
          ret'.val # Err("CaptureAlreadyRunning")

\* C2 as claimed: stop on an empty slot returns NoCaptureRunning and changes nothing;
\* stop on a session stops the worker, returns the output path generated at start
\* and leaves the slot empty for a following start.
C2_StopReturnsPath ==
    [][/\ StopOnEmptySlot
       /\ StopEmptiesSlot
       /\ stop_returns => ret'.val = OkPath(sess[Stopping].path)]_vars

\* C2, amended: stop on an empty slot returns NoCaptureRunning and changes nothing;
\* stop on a session stops the worker and leaves the slot empty for a following
\* start; it returns the output path generated at start when the worker finished
\* without error, the worker's error when it returned one, and
\* CaptureThreadPanicked when it panicked.
C2_StopReturnsWorkerResult ==
    [][/\ StopOnEmptySlot
       /\ StopEmptiesSlot
       /\ stop_returns =>
            /\ sess[Stopping].result.tag = "Ok" => ret'.val = OkPath(sess[Stopping].path)
            /\ sess[Stopping].result.tag = "Err" =>
                  /\ ret'.val = sess[Stopping].result
                  /\ ret'.val.msg \in {"AudioCapture", "WavEncode"}
            /\ sess[Stopping].result.tag = "Panic" =>
                  ret'.val = Err("CaptureThreadPanicked")]_vars

\* a stop returned the path of a session, joined its worker once and left the
\* slot empty
C2_Witness ==
    /\ ret.op = "stop"
    /\ ret.val.tag = "Ok"
    /\ ret.val.path \in 0..MaxClock
    /\ sess[ret.h].h = "dropped"
    /\ sess[ret.h].joins = 1
    /\ capture_lock = 0
    /\ mutex = "free"

\* C3: whenever stop returns Ok(path) the worker's finalize (flush and header patch)
\* completed before the return, and a session whose worker failed in open, create,
\* start, drain or finalize makes stop return that error and no path.
C3_PathOnlyAfterFinalize ==
    /\ [](\A i \in Handles : sess[i].result.tag = "Ok" =>
              /\ sess[i].pc = "exited"
              /\ sess[i].file.finalized
              /\ sess[i].result.path = sess[i].path)
    /\ [][stop_returns =>
            /\ ret'.val.tag = "Ok" =>
                  /\ sess[Stopping].file.finalized
                  /\ sess[Stopping].file.data_size = sess[Stopping].writer.data_bytes_written
                  /\ ret'.val.path = sess[Stopping].path
            /\ ~sess[Stopping].file.finalized => ret'.val.tag = "Err"
            /\ sess[Stopping].result.tag = "Err" => ret'.val = sess[Stopping].result]_vars

\* a stop is about to return the path of a finalized file that holds packets
C3_Witness ==
    /\ mutex = "stop"
    /\ \E i \in Handles :
          /\ sess[i].h = "stopping"
          /\ sess[i].result.tag = "Ok"
          /\ sess[i].file.finalized
          /\ Len(sess[i].delivered) > 0

---------------------------------------------------------------------------
(* Properties of the handle.                                                *)

\* the run a packet leaves in the file, by the session's source encoding
RunOf(fmt, p) ==
    [kind |-> IF p.silent THEN "zero"
              ELSE IF ~fmt.is_float /\ fmt.bits_per_sample = 16 THEN "i16"
              ELSE "copy",
     frames |-> p.frames]

RECURSIVE FramesOf(_)
\* the frames of a sequence of packets or runs
FramesOf(q) == IF q = <<>> THEN 0 ELSE q[1].frames + FramesOf(Tail(q))

\* the finalized file of a capture of the packets pk in format fmt
FileOf(fmt, pk) ==
    LET n == Big(FramesOf(pk) * fmt.channels * BytesPerSample)
    IN  [exists |-> TRUE, channels |-> fmt.channels,
         riff |-> BigAdd(Big(RiffExtra), n), data_size |-> n, bytes |-> n,
         runs |-> [k \in 1..Len(pk) |-> RunOf(fmt, pk[k])],
         torn |-> FALSE, finalized |-> TRUE]

\* C4: dropping a handle without stop does what stop does: it sets the stop flag and
\* waits for the worker to exit, and the worker ends with the same final drain and
\* finalize, so the file is the same function of the packet sequence.
C4_DropIsStop ==
    \A i \in Handles :
        /\ sess[i].h \in {"stopping", "dropping", "dropped"} => sess[i].stop_flag
        /\ sess[i].h = "dropped" => sess[i].pc = "exited" /\ sess[i].joins = 1
        /\ sess[i].result.tag = "Ok" =>
              /\ sess[i].pc = "exited"
              /\ sess[i].stop_flag
              /\ sess[i].file = FileOf(sess[i].format, sess[i].delivered)

\* a handle dropped without stop waits on a worker that finalized a file with packets
C4_Witness ==
    \E i \in Handles :
        /\ sess[i].h = "dropping"
        /\ sess[i].result.tag = "Ok"
        /\ Len(sess[i].delivered) > 0
        /\ sess[i].file = FileOf(sess[i].format, sess[i].delivered)

\* C5: stop returns CaptureThreadPanicked when the worker exited by panic; a second
\* stop on the handle returns CaptureAlreadyStopped without joining or touching a
\* worker; a later drop of the handle joins nothing.
C5_StopTwice ==
    /\ [](\A i \in Handles : sess[i].joins <= 1)
    /\ [][\A i \in Handles :
            /\ (handle_stop_returns(i) /\ sess[i].result.tag = "Panic") =>
                  ret'.val = Err("CaptureThreadPanicked")
            /\ (handle_stop(i) /\ sess[i].joins > 0) =>
                  /\ ret'.op = "handle_stop" /\ ret'.h = i
                  /\ ret'.val = Err("CaptureAlreadyStopped")
                  /\ sess'[i].h = "live"
                  /\ sess'[i].joins = sess[i].joins
                  /\ sess'[i].pc = sess[i].pc /\ sess'[i].result = sess[i].result
            /\ (handle_drop(i) /\ sess[i].joins > 0) =>
                  /\ sess'[i].h = "dropped"
                  /\ sess'[i].joins = sess[i].joins]_vars

\* a second stop was refused on a handle whose worker had panicked
C5_Witness ==
    /\ ret.op = "handle_stop"
    /\ ret.val = Err("CaptureAlreadyStopped")
    /\ sess[ret.h].h = "live"
    /\ sess[ret.h].result = Panicked
    /\ sess[ret.h].joins = 1

\* Running, Stopping, Stopped as a rank
Phase(s) == IF s.pc = "exited" THEN 2 ELSE IF s.stop_flag THEN 1 ELSE 0

\* C6: a session only moves forward through Running, Stopping, Stopped: the stop
\* flag goes from false to true only, written by stop or drop, and is never
\* cleared; a worker that has exited is not restarted for the same handle.
C6_ForwardOnly ==
    [][\A i \in Handles :
         sess[i].h # "none" =>
            /\ Phase(sess[i]) <= Phase(sess'[i])
            /\ sess[i].stop_flag => sess'[i].stop_flag
            /\ sess[i].pc = "exited" => sess'[i].pc = "exited"
            /\ (~sess[i].stop_flag /\ sess'[i].stop_flag) =>
                  /\ sess[i].h = "live"
                  /\ handle_stop(i) \/ handle_drop(i)]_vars

\* a handle has been stopped and is still held: the flag is set, the worker has exited
C6_Witness ==
    \E i \in Handles :
        /\ sess[i].h = "live"
        /\ sess[i].stop_flag
        /\ sess[i].pc = "exited"
        /\ sess[i].joins = 1

---------------------------------------------------------------------------
(* Stop latency.  The worker thread and the blocking task that runs the     *)
(* stop command are scheduled by the operating system: each takes its next  *)
(* step eventually.                                                         *)

FairSpec ==
    /\ Spec
    /\ WF_vars(\E i \in Handles : Worker(i))
    /\ WF_vars(stop_returns)

---------------------------------------------------------------------------
(* Properties of the sink.                                                  *)

RECURSIVE BigFramesOf(_)
\* the frames of a sequence of runs, as a wide integer
BigFramesOf(q) ==
    IF q = <<>> THEN Big(0) ELSE BigAdd(Big(q[1].frames), BigFramesOf(Tail(q)))

\* channels x 4 x total frames
DataBytesOf(channels, runs) == BigScale(BigFramesOf(runs), channels * BytesPerSample)

\* size of the file on disk
FileSize(f) == BigAdd(Big(HeaderLen), f.bytes)

\* C8: after any sequence of successful write_silence and write_raw calls, in every
\* source encoding, the bytes appended and data_bytes_written both equal
\* channels x 4 x the sum of the calls' frame counts.
C8_BytesMatchFrames ==
    \A i \in Handles :
        (sess[i].writer.open \/ sess[i].file.finalized) =>
            /\ sess[i].file.bytes = DataBytesOf(sess[i].format.channels, sess[i].file.runs)
            /\ sess[i].writer.data_bytes_written = sess[i].file.bytes

\* three writes, silence and raw, on a 16-bit integer source
C8_Witness ==
    /\ sess[1].writer.open
    /\ sess[1].format.bits_per_sample = 16
    /\ Len(sess[1].file.runs) = 3
    /\ \E j, k \in 1..3 : sess[1].file.runs[j].kind = "zero" /\ sess[1].file.runs[k].kind = "i16"
    /\ sess[1].file.bytes = DataBytesOf(1, sess[1].file.runs)
    /\ ~BigLeq(sess[1].file.bytes, Big(8))

\* what C9 states of one finalized file
HeaderMatchesData(s) ==
    /\ s.file.data_size = s.file.bytes
    /\ FileSize(s.file) = BigAdd(Big(HeaderLen), s.file.data_size)
    /\ s.file.data_size = DataBytesOf(s.format.channels, s.file.runs)

\* C9 as claimed: in every finalized file the declared data-chunk size equals the
\* bytes written after the header, file size = 44 + declared size, and the declared
\* size = 4 x channels x total frames.
C9_HeaderMatchesData ==
    \A i \in Handles : sess[i].file.finalized => HeaderMatchesData(sess[i])

\* C9, amended: in every finalized file that holds fewer than 2^32 data bytes the
\* declared data-chunk size equals the bytes written after the header, file size =
\* 44 + declared size, and the declared size = 4 x channels x total frames; from
\* 2^32 bytes on the declared size is 2^32 - 1.
C9_HeaderMatchesDataBelow4G ==
    \A i \in Handles :
        sess[i].file.finalized =>
            IF BigLeq(sess[i].file.bytes, U32Max)
            THEN HeaderMatchesData(sess[i])
            ELSE sess[i].file.data_size = U32Max

\* a finalized file a few bytes short of 2^32, its header declaring all of them
C9_Witness ==
    /\ sess[1].file.finalized
    /\ BigLeq(sess[1].file.bytes, U32Max)
    /\ ~BigLeq(sess[1].file.bytes, Big(BigFrames))
    /\ Len(sess[1].file.runs) >= 2
    /\ sess[1].file.data_size = sess[1].file.bytes

---------------------------------------------------------------------------
(* Errors in the drain.                                                     *)

\* C10: an error that affects one packet (GetBuffer fails, or the sink write of that
\* packet fails) does not abort the session: the worker leaves no drain pass by
\* exiting, it goes on with the next packet and runs until stop.
C10_PacketErrorKeepsSession ==
    [][\A i \in Handles :
         sess[i].pc \in DrainPcs => sess'[i].pc \in DrainPcs \cup {"check", "drop_session"}]_vars

\* C11: a fatal failure of the device, seen as a failing packet-size query or a
\* failing buffer request, forces the session to Stopped: after it the worker is
\* not found waiting for the next buffer while nobody has called stop.
C11_FatalFailureStops ==
    \A i \in Handles :
        (sess[i].qerr /\ ~sess[i].stop_flag) => sess[i].pc \notin {"wait", "drain_begin"}

\* C14: is_system_audio_available answers true exactly when a LoopbackSession::open
\* made at that moment would succeed, and it changes neither the capture slot nor a
\* running session.
C14_AvailableIffOpens ==
    /\ [](ret.op = "is_available" => (ret.val.tag = "true" <=> ret.val.msg = "open_ok"))
    /\ [][is_system_audio_available => UNCHANGED <<gen, capture_lock, mutex, sess, npk>>]_vars

---------------------------------------------------------------------------
(* Levels.                                                                  *)

\* a level in 0.0..=1.0
InUnit(x) == x.k = "fin" /\ x.v >= 0 /\ x.v <= Scale

\* C12: every level write_raw returns lies in 0.0..=1.0 whatever the packet holds,
\* and so do the maximum of a drain pass, the peak of the loop and the level of
\* every audio-level event.
C12_LevelInUnit ==
    /\ InUnit(meter.level)
    /\ InUnit(meter.max_level)
    /\ InUnit(meter.peak_level)
    /\ meter.event # NoEvent => InUnit(meter.event)

\* an event carried level 1.0 in a session of a source that is not 32-bit float
C12_Witness ==
    /\ meter.event = Fin(Scale)
    /\ meter.read
    /\ ~meter.format.is_float
    /\ meter.format.bits_per_sample = 24

\* C13: in a session whose packets all carry the SILENT flag no packet buffer is
\* read, every data byte written is zero, the data size is 4 x channels x total
\* frames, and every level and every audio-level event is 0.
C13_SilentSession ==
    meter.all_silent =>
        /\ ~meter.read
        /\ \A k \in 1..Len(meter.file.runs) : meter.file.runs[k].kind = "zero"
        /\ meter.pc # "failed" =>
              /\ Len(meter.file.runs) = meter.packets
              /\ meter.file.bytes = DataBytesOf(meter.format.channels, meter.file.runs)
        /\ meter.file.finalized => meter.file.data_size = meter.file.bytes
        /\ meter.level = Fin(0) /\ meter.max_level = Fin(0) /\ meter.peak_level = Fin(0)
        /\ meter.event \in {NoEvent, Fin(0)}

\* a finalized session of silent packets only, with frames, that emitted an event
C13_Witness ==
    /\ meter.all_silent
    /\ meter.pc = "done"
    /\ meter.packets = MaxPackets
    /\ meter.event = Fin(0)
    /\ meter.file.finalized
    /\ ~BigLeq(meter.file.bytes, Big(8))

---------------------------------------------------------------------------
(* The hallucination filter.                                                *)

\* the length of a text in characters, separators included
CharLen(text) == IF text = <<>> THEN 0 ELSE SumOf(text, "chars") + Len(text) - 1

\* the words of more than one character, compared without regard to case
LongWords(text) == SelectSeq(to_lowercase(text), LAMBDA w : w.chars > 1)

\* the spellings among a list of words
Distinct(words) == {words[k].s : k \in 1..Len(words)}

\* the largest number of times one 3-gram occurs
MaxTrigramCount(words) ==
    LET wins == windows(words)
        counts == {Cardinality({j \in 1..Len(wins) : wins[j] = wins[k]}) : k \in 1..Len(wins)}
    IN  IF counts = {} THEN 0 ELSE CHOOSE c \in counts : \A d \in counts : d <= c

\* the classification the filter is specified to make
Hallucinated(text) ==
    /\ CharLen(text) >= 20
    /\ Len(LongWords(text)) >= 4
    /\ \/ Cardinality(Distinct(LongWords(text))) * 4 < Len(LongWords(text))
       \/ MaxTrigramCount(LongWords(text)) >= 3

\* C20: is_hallucination answers true exactly when the text has 20 characters or
\* more, at least 4 words remain once the 1-character words are dropped, and the
\* unique-word ratio is below 0.25 or some trigram occurs 3 times or more; so it
\* answers false for every text shorter than 20 characters and for every text with
\* 4 or more distinct words, no trigram more than twice and a ratio of 0.25 or more.
C20_HallucinationFilter ==
    kern.fn = "is_hallucination" =>
        /\ kern.out = "true" <=> Hallucinated(kern.arg)
        /\ CharLen(kern.arg) < 20 => kern.out = "false"
        /\ ( /\ Cardinality(Distinct(LongWords(kern.arg))) >= 4
             /\ MaxTrigramCount(LongWords(kern.arg)) <= 2
             /\ Cardinality(Distinct(LongWords(kern.arg))) * 4 >= Len(LongWords(kern.arg)) )
           => kern.out = "false"

---------------------------------------------------------------------------
(* MoonshineEngine::transcribe.                                             *)

\* the mean square of every 4th sample is below the square of the threshold
Quiet(audio) ==
    LET acc == fold_squares(audio, 0, STEP)
    IN  /\ acc.sum.k = "fin"
        /\ acc.sum.v < VAD_RMS_THRESHOLD * VAD_RMS_THRESHOLD * acc.count

AllZero(audio) == \A k \in 1..Len(audio) : audio[k].v = Fin(0)

\* C18: transcribe returns the empty string without running the encoder or the
\* decoder when the audio is empty or its RMS over every 4th sample is below 0.015,
\* and so for an all-zero buffer of any length.
C18_QuietAudioSkipsInference ==
    \A c \in Calls :
        LET r == asr.calls[c].run
        IN  (r.pc # "idle" /\ (r.audio = <<>> \/ Quiet(r.audio) \/ AllZero(r.audio)))
            => /\ r.pc = "returned"
               /\ r.val = OkText(<<>>)
               /\ r.encoder_runs = 0
               /\ r.decoder_runs = 0

\* transcribe has returned for a buffer of two runs that is quiet but not all zero
C18_Witness ==
    LET r == asr.calls[1].run
    IN  /\ r.pc = "returned"
        /\ Len(r.audio) = 2 /\ Quiet(r.audio) /\ ~ AllZero(r.audio)
        /\ r.val = OkText(<<>>) /\ r.encoder_runs = 0

\* n is no more than audio_seconds * 6 clamped to [1, max_position_embeddings]
WithinMaxLen(n, config, len) ==
    /\ n <= config.max_position_embeddings
    /\ n <= 1 \/ n * SampleRate <= len * TokensPerSecond

\* C19: the token sequence starts with decoder_start_token_id and grows by at most
\* one token per decoder step; the decoder runs at most max_len times, max_len being
\* audio_seconds * 6 clamped to [1, max_position_embeddings]; eos is never appended,
\* the sequence is never longer than max_len + 1, and the loop always has steps left
\* while it runs, so it terminates.
C19_DecodingBounded ==
    /\ [](\A c \in Calls :
            LET r == asr.calls[c].run
                len == audio_len(r.audio)
            IN  r.generated_tokens # <<>> =>
                  /\ r.generated_tokens[1] = asr.engine.decoder_start_token_id
                  /\ \A k \in 2..Len(r.generated_tokens) :
                         r.generated_tokens[k] # asr.engine.eos_token_id
                  /\ Len(r.generated_tokens) <= r.decoder_runs + 1
                  /\ WithinMaxLen(r.decoder_runs, asr.engine, len)
                  /\ WithinMaxLen(Len(r.generated_tokens) - 1, asr.engine, len)
                  /\ r.pc = "decoder" => WithinMaxLen(r.decoder_runs + 1, asr.engine, len))
    /\ [][\A c \in Calls :
            LET r == asr.calls[c].run
                q == asr.calls[c].run'
            IN  /\ Len(q.generated_tokens) <= Len(r.generated_tokens) + 1
                /\ (r.pc = "decoder" /\ q.decoder_runs = r.decoder_runs + 1
                    /\ Len(q.generated_tokens) = Len(r.generated_tokens))
                   => q.pc \in {"tokenizer", "returned"}]_vars

\* the loop has ended on its bound, which max_position_embeddings set: the audio is
\* long enough for 4 tokens
C19_Witness ==
    LET r == asr.calls[1].run
    IN  /\ r.pc = "tokenizer"
        /\ asr.engine.max_position_embeddings = 2
        /\ audio_len(r.audio) * TokensPerSecond >= 4 * SampleRate
        /\ Len(r.generated_tokens) = 3 /\ r.decoder_runs = 2

---------------------------------------------------------------------------
(* The transcription commands.                                              *)

\* C15: no command handler blocks the request-servicing context: every step that
\* takes or holds the mutex, touches the file system or runs inference is on a
\* blocking worker, for every command.
C15_NothingOnAsyncContext ==
    \A c \in Calls : asr.calls[c].pc \in {"lock", "held"} => asr.calls[c].on = "blocking"

\* call c is inside engine.transcribe
Transcribing(c) ==
    /\ asr.calls[c].cmd = "transcribe"
    /\ asr.calls[c].run.pc \in {"encoder", "decoder", "tokenizer", "returned"}

\* C16: at most one transcribe runs at a time, and the engine is neither unloaded
\* nor replaced while a transcribe runs.
C16_TranscribeExclusive ==
    /\ [](Cardinality({c \in Calls : Transcribing(c)}) <= 1)
    /\ [][(\E c \in Calls : Transcribing(c)) => asr.engine' = asr.engine]_vars

\* a transcribe is in its decoding loop, on a loaded engine, while an unload waits
\* for the slot
C16_Witness ==
    \E c, u \in Calls :
        /\ Transcribing(c) /\ asr.calls[c].run.pc = "decoder"
        /\ asr.lock = c /\ asr.engine # NoEngine
        /\ asr.calls[u].cmd = "unload" /\ asr.calls[u].pc = "lock"

\* a call of cmd returns in this step
Returns(cmd) == asr.ret' # asr.ret /\ asr.ret'.cmd = cmd

---------------------------------------------------------------------------
(* The end of run_capture, and the packets of a drain pass.                 *)

\* C26 as stated: after the final drain the worker finalizes the sink and then drops
\* the source, so the source still exists whenever the sink is about to be finalized.
C26_FinalizeThenDrop ==
    \A i \in Handles : sess[i].pc = "finalize" => sess[i].sopen

\* C26, amended: on observing the stop flag the worker performs one final drain, then
\* drops the source, then finalizes the sink: the source is dropped on this path only
\* at the end of a drain pass begun after the flag was written, and the sink is
\* finalized only once the source is gone.
C26_DropThenFinalize ==
    [][\A i \in Handles :
         /\ (sess[i].sopen /\ ~ sess'[i].sopen /\ sess'[i].pc # "exited")
            => /\ sess[i].pc = "drop_session" /\ sess'[i].pc = "finalize"
               /\ sess[i].stop_flag /\ sess[i].drains >= 1
         /\ (~ sess[i].file.finalized /\ sess'[i].file.finalized)
            => /\ sess[i].pc = "finalize" /\ ~ sess[i].sopen
               /\ sess[i].stop_flag /\ sess[i].drains >= 1]_vars

\* a worker has finalized its file after the final drain, its source dropped before
C26_Witness ==
    \E i \in Handles :
        /\ sess[i].pc = "report" /\ sess[i].file.finalized
        /\ ~ sess[i].sopen /\ sess[i].stop_flag /\ sess[i].drains >= 1
        /\ sess[i].delivered # <<>>

\* C27: each packet obtained in a drain pass is consumed once by the sink and released
\* before the next is requested; no packet is held once the drain pass has ended, on
\* any exit path.
C27_NoPacketHeldAfterPass ==
    \A i \in Handles : sess[i].pc \notin {"drain", "final"} => ~ sess[i].held

\* C30: the slot mutexes are held only to read or move the handle: no call holds the
\* engine-slot mutex while it runs the encoder, the decoder or the tokenizer.
C30_SlotMutexHeldBriefly ==
    \A c \in Calls :
        asr.lock = c => asr.calls[c].run.pc \notin {"encoder", "decoder", "tokenizer"}

---------------------------------------------------------------------------
(* The post-processor.                                                      *)

\* C21: for every waveform denoise_wav accepts, whatever its channel count, its data
\* size, the intensity and normalize, the output has as many samples as the input,
\* and the input's sample rate and channel count.
C21_OutputLikeInput ==
    (enh.ret.op = "denoise" /\ enh.ret.tag = "Ok") =>
        LET f == enh.files[enh.ret.path]
        IN  /\ Len(enh.ret.work.out) = Len(enh.ret.work.read)
            /\ RunsLen(f.data) = Len(enh.ret.work.read)
            /\ f.sample_rate = enh.ret.input.sample_rate
            /\ f.channels = enh.ret.input.channels

Rejected(f) ==
    \/ ~ f.exists \/ f.header # "ok" \/ ~ f.has_data
    \/ ~ \/ f.format_tag = WAVE_FORMAT_FLOAT /\ f.bits_per_sample = 32
         \/ f.format_tag # WAVE_FORMAT_FLOAT /\ f.bits_per_sample = 16
    \/ ~ BigLeq(f.data_size, BigMul(RunsLen(f.data), 4))
    \/ f.sample_rate # RnnoiseRate

\* C23: on an input whose sample rate is not 48000, and on any read or format error of
\* the input, denoise_wav returns an AudioEnhance error and creates or overwrites no
\* output file.
C23_RejectedInputWritesNothing ==
    /\ [](enh.ret.op = "denoise" /\ Rejected(enh.ret.input) => enh.ret.tag = "Err")
    /\ [][(enh.ret'.op = "denoise" /\ enh.ret' # enh.ret /\ Rejected(enh.ret'.input))
            => enh.files' = enh.files]_vars

\* C24: reading back a file written by write_wav_f32 yields exactly the written
\* samples in order, with is_float = true, bits = 32, and the channel count and
\* sample rate given to the writer.
C24_ReadBackWhatWasWritten ==
    [][(enh.ret.op = "write" /\ enh.ret.tag = "Ok"
          /\ enh.ret'.op = "read" /\ enh.ret'.path = enh.ret.path)
        => /\ enh.ret'.tag = "Ok"
           /\ enh.ret'.samples = enh.ret.samples
           /\ enh.ret'.info.is_float /\ enh.ret'.info.bits_per_sample = 32
           /\ enh.ret'.info.channels = enh.ret.info.channels
           /\ enh.ret'.info.sample_rate = enh.ret.info.sample_rate]_vars

\* C25: output paths are unique per invocation: no two enhance_audio invocations,
\* concurrent ones included, write to the same temp file path.
C25_PathsUnique ==
    \A c, d \in Jobs :
        (c # d /\ enh.jobs[c].pc # "none" /\ enh.jobs[d].pc # "none")
        => enh.jobs[c].output_path # enh.jobs[d].output_path

---------------------------------------------------------------------------
(* The KV cache of the decoding loop.                                       *)

\* what entry e of a cache holds after `appended` tokens were pushed, when the decoder
\* has an output for it: the tensor of the last pushing step for a decoder-module
\* entry, the tensor of step 0 for an encoder-module entry
RefreshedAs(e, appended) ==
    /\ e.data.k = "present"
    /\ e.data.n = IF e.name[3] = "decoder" THEN appended - 1 ELSE 0

\* C28 (as the code has it): the cache is updated on the steps that push a token, for
\* the entries the decoder has an output for.  On step 0 every such entry is replaced;
\* on a later step only those whose name contains "decoder": an encoder-module entry
\* is refreshed at most once per call, on step 0, and is unchanged by every later
\* step, a decoder-module entry is refreshed on every step that pushes a token, and a
\* call whose step 0 ends the loop leaves every entry as it was allocated.
C28_RefreshedOnPushingSteps ==
    /\ [](\A c \in Calls :
            LET r == asr.calls[c].run
                appended == Len(r.generated_tokens) - 1
            IN  \A j \in 1..Len(r.kv_cache) :
                    IF appended > 0 /\ j < asr.engine.decoder_outputs
                    THEN RefreshedAs(r.kv_cache[j], appended)
                    ELSE r.kv_cache[j].data.k = "zeros")
    /\ [][\A c \in Calls :
            LET r == asr.calls[c].run
                q == asr.calls[c].run'
            IN  (r.pc = "decoder" /\ r.decoder_runs > 0 /\ Len(q.kv_cache) = Len(r.kv_cache))
                => \A j \in 1..Len(r.kv_cache) :
                       \/ r.kv_cache[j].name[3] = "decoder"
                       \/ q.kv_cache[j] = r.kv_cache[j]]_vars

\* two tokens were pushed on a model whose decoder has an output for every entry: the
\* decoder-module entries hold the tensors of step 1, the encoder-module ones those of
\* step 0
C28_Witness ==
    \E c \in Calls :
        LET r == asr.calls[c].run
        IN  /\ Len(r.generated_tokens) = 3 /\ r.decoder_runs = 2
            /\ Len(r.kv_cache) = 8 /\ asr.engine.decoder_outputs = 9
            /\ \A j \in 1..8 :
                   r.kv_cache[j].data =
                       [k |-> "present", n |-> IF r.kv_cache[j].name[3] = "decoder" THEN 1 ELSE 0]

\* C28 (as stated): after step 0 every entry is replaced by the decoder's output, and
\* each encoder-module entry is refreshed exactly once per transcribe call.
C28_RefreshedAfterStepZero ==
    \A c \in Calls :
        LET r == asr.calls[c].run
        IN  (r.decoder_runs >= 1 /\ r.pc \in {"decoder", "tokenizer"})
            => \A j \in 1..Len(r.kv_cache) :
                   /\ r.kv_cache[j].data.k = "present"
                   /\ r.kv_cache[j].name[3] = "encoder" => r.kv_cache[j].data.n = 0

\* C29: at step 0 the cache holds exactly 4 x num_layers entries with pairwise distinct
\* names past_key_values.{layer}.{decoder|encoder}.{key|value}, each of shape
\* [1, num_heads, 1, hidden_size / num_heads] with every dimension >= 1 and a
\* zero-filled buffer as long as the product of the shape, for every config the engine
\* was loaded with.
C29_PlaceholderCache ==
    \A c \in Calls :
        LET r == asr.calls[c].run
            config == asr.engine
            kv == r.kv_cache
        IN  /\ r.val.tag # "Panic"
            /\ (r.pc = "decoder" /\ r.decoder_runs = 0) =>
                 /\ Len(kv) = 4 * config.decoder_num_hidden_layers
                 /\ \A i, j \in 1..Len(kv) : i # j => kv[i].name # kv[j].name
                 /\ \A j \in 1..Len(kv) :
                      /\ kv[j].name[1] = "past_key_values"
                      /\ kv[j].name[2] \in 0..(config.decoder_num_hidden_layers - 1)
                      /\ kv[j].name[3] \in {"decoder", "encoder"}
                      /\ kv[j].name[4] \in {"key", "value"}
                      /\ kv[j].shape = <<1, config.decoder_num_key_value_heads, 1,
                                         config.hidden_size \div
                                             config.decoder_num_key_value_heads>>
                      /\ \A d \in 1..4 : kv[j].shape[d] >= 1
                      /\ kv[j].data.k = "zeros"
                      /\ kv[j].data.n = kv[j].shape[1] * kv[j].shape[2]
                                          * kv[j].shape[3] * kv[j].shape[4]

---------------------------------------------------------------------------
(* The sizes of the header, and the bytes write_raw reads.                  *)

\* C35: for every number of bytes written, those at or above 2^32 - 36 included,
\* finalize writes min(bytes written, 2^32 - 1) as the data-chunk size and 36 + that
\* size as the RIFF chunk size, without overflow of the 32-bit sum and without abort.
C35_HeaderSizesWithoutOverflow ==
    \A i \in Handles :
        /\ sess[i].result.tag # "Panic"
        /\ sess[i].file.finalized =>
             /\ sess[i].file.data_size = BigMin(sess[i].file.bytes, U32Max)
             /\ sess[i].file.riff = BigAdd(Big(RiffExtra), sess[i].file.data_size)

\* C36: write_raw reads exactly frame_count x channels source samples, that is
\* frame_count x channels x (bits_per_sample / 8) bytes of the packet, in every
\* encoding branch.
C36_ReadsThePacketOnly ==
    \A i \in Handles :
        \A k \in 1..Len(sess[i].file.runs) :
            LET run == sess[i].file.runs[k]
                fmt == sess[i].format
                sample_count == BigMul(run.frames, fmt.channels)
            IN  run.kind # "zero" =>
                    source_bytes(fmt, sample_count)
                        = BigScale(sample_count, fmt.bits_per_sample \div 8)

---------------------------------------------------------------------------
(* The capture slot.                                                        *)

\* C39: only the commands change the slot: it becomes occupied by a start that
\* succeeds and is emptied by stop_system_audio_capture, whatever handle.stop returns.
\* A worker that exits on its own leaves the slot as it is: start keeps returning
\* CaptureAlreadyRunning while the slot is occupied, and the stop that follows returns
\* the worker's error with the slot empty.
C39_SlotOnlyByCommands ==
    [][/\ capture_lock' # capture_lock =>
            \/ /\ capture_lock = 0 /\ ret'.op = "start" /\ ret'.val.tag = "Ok"
               /\ ret'.h = capture_lock' /\ mutex = "free"
            \/ /\ capture_lock' = 0 /\ mutex = "free"
               /\ mutex' = "stop" \/ ret'.op = "stop"
       /\ (capture_lock # 0 /\ ret' # ret /\ ret'.op = "start") =>
            /\ ret'.val = Err("CaptureAlreadyRunning")
            /\ capture_lock' = capture_lock
       /\ (mutex = "stop" /\ mutex' = "free") =>
            /\ capture_lock' = 0 /\ ret'.op = "stop"
            /\ sess[ret'.h].result.tag = "Err" => ret'.val = sess[ret'.h].result
       /\ \A i \in Handles :
            (sess[i].pc # "exited" /\ sess'[i].pc = "exited") => capture_lock' = capture_lock
      ]_vars

\* the worker of the session in the slot has exited with an error, and a start has
\* just been refused
C39_Witness ==
    /\ capture_lock # 0
    /\ sess[capture_lock].pc = "exited"
    /\ sess[capture_lock].result.tag = "Err"
    /\ ret = [op |-> "start", h |-> 0, val |-> Err("CaptureAlreadyRunning")]

---------------------------------------------------------------------------
(* The audio-level events.                                                  *)

\* C34: the capture loop calls emit exactly once after every 10th iteration,
\* floor(iterations / 10) times in all and never for the final drain; the event
\* carries the greatest packet level seen since the emit before (or since the start);
\* the rolling peak and the iteration counter are 0 after each emit, whether the emit
\* reached the host or not.
C34_LevelEveryTenth ==
    /\ [](/\ meter.emits = meter.iters \div 10
          /\ meter.iter_count = meter.iters % 10)
    /\ [][/\ meter'.emits \in {meter.emits, meter.emits + 1}
          /\ meter.pc = "final" => meter'.emits = meter.emits /\ meter'.event = meter.event
          /\ meter'.emits = meter.emits =>
                meter'.event = meter.event /\ meter'.emit_ok = meter.emit_ok
          /\ meter'.emits = meter.emits + 1 =>
                /\ meter.pc = "pass" /\ meter'.iters = meter.iters + 1
                /\ meter'.event = meter.seen
                /\ meter'.peak_level = Fin(0) /\ meter'.iter_count = 0]_vars

\* the 11th iteration is over: one event was emitted, after the 10th, with the level
\* of a packet drained before it, and it did not reach the host
C34_Witness ==
    /\ meter.iters = 11 /\ meter.emits = 1
    /\ meter.event = Fin(Scale) /\ ~ meter.emit_ok
    /\ meter.iter_count = 1

---------------------------------------------------------------------------
(* The loopback session.                                                    *)

\* the conditions of the device on which the event-driven Initialize is rejected
\* and the rejection is logged
EventRejected == {"init_err", "ok_polling"}

\* open returned an AudioCapture error: no session existed, nothing was dropped
OpenFailed ==
    /\ dev.pc = "exited"
    /\ dev.frees = 0
    /\ dev.result = Err("AudioCapture")

C32_FormatReleasedOnce ==
    dev.pc = "exited" =>
        /\ dev.frees = dev.allocs
        /\ dev.stops = dev.starts

\* C33: after a wait_for_buffer in event-driven mode the call has blocked on the
\* event for at most the timeout and the loop has not slept; in polling mode the
\* call has returned at once and the loop has slept 10 ms.
C33_WaitByMode ==
    dev.wait # "none" =>
        /\ dev.mode = "event" =>
              dev.blocked_ms <= EVENT_WAIT_TIMEOUT_MS /\ dev.slept_ms = 0
        /\ dev.mode = "polling" => dev.blocked_ms = 0 /\ dev.slept_ms = 10

---------------------------------------------------------------------------
(* The chunk scan.                                                          *)

\* the chunks tagged data whose header lies wholly inside the file
DataChunksOf(f) ==
    {k \in 1..Len(f.chunks) :
        /\ f.chunks[k].tag = "data"
        /\ ChunkOffset(f.chunks, k) + ChunkHeaderLen <= f.flen}

\* the scan has been entered: the first 44 bytes were read and carry the magic
Scanning ==
    /\ kern.fn = "read_wav_header"
    /\ kern.arg.flen >= FirstRead
    /\ kern.arg.magic

\* what the scan returned is right: the first data chunk, with the offset of its
\* first payload byte, or an error when the file has no data chunk
ScanResultRight ==
    Scanning /\ kern.out # "none" =>
        LET f == kern.arg
        IN  IF DataChunksOf(f) = {}
            THEN kern.out = "Err"
            ELSE LET k == CHOOSE k \in DataChunksOf(f) : \A j \in DataChunksOf(f) : k <= j
                 IN  /\ kern.out = "Ok"
                     /\ kern.data_offset = ChunkOffset(f.chunks, k) + ChunkHeaderLen
                     /\ kern.data_size = f.chunks[k].size
                     /\ kern.steps = k

\* C37: for every finite file the chunk scan from offset 12 terminates; it returns
\* the first chunk tagged data with data_offset the offset of that chunk's first
\* payload byte, every chunk before it skipped by its declared size, or an error
\* when no data chunk is found before the end of the file.
C37_ScanTerminates ==
    /\ [] ScanResultRight
    /\ (Scanning /\ kern.out = "none") ~> (Scanning /\ kern.out # "none")

\* the scan skipped two chunks and returned the third, tagged data
C37_Witness ==
    /\ Scanning
    /\ kern.out = "Ok"
    /\ kern.steps = 3
    /\ kern.data_offset = 52

---------------------------------------------------------------------------
(* The fades.                                                               *)

\* C38: apply_fade uses the fade length min(sample_rate * fade_ms / 1000, len / 2);
\* for every signal length, 0 and 1 included, its loops touch only indices inside
\* the signal, the faded-in prefix and the faded-out suffix do not overlap, the
\* samples outside the two are unchanged, and the length of the signal is unchanged.
C38_FadeStaysInside ==
    kern.fn = "apply_fade" =>
        LET len == Len(kern.arg)
            wanted == (kern.sample_rate * kern.fade_ms) \div 1000
            half == len \div 2
        IN  /\ kern.fade_samples = IF wanted <= half THEN wanted ELSE half
            /\ kern.faded_in \subseteq 0..len - 1
            /\ kern.faded_out \subseteq 0..len - 1
            /\ kern.faded_in \cap kern.faded_out = {}
            /\ \A i \in kern.faded_in : \A j \in kern.faded_out : i < j
            /\ Len(kern.samples) = len
            /\ \A i \in (0..len - 1) \ (kern.faded_in \cup kern.faded_out) :
                  kern.samples[i + 1] = kern.arg[i + 1]

\* a signal of 5 samples faded over 2 at each end: the middle sample is as it was,
\* the first is silenced
C38_Witness ==
    /\ kern.fn = "apply_fade"
    /\ Len(kern.arg) = 5
    /\ kern.fade_samples = 2
    /\ kern.faded_in = {0, 1}
    /\ kern.faded_out = {3, 4}
    /\ kern.samples[3] = kern.arg[3]
    /\ kern.samples[1] = Fin(0)
    /\ kern.samples[2] # kern.arg[2]

===========================================================================
